---- MODULE Spec2Model ----
(***************************************************************************)
(* RemoteLLMconnector: broker transport server (tunnel_server.py),         *)
(* connector store (connectors.py), model router (router.py), broker HTTP  *)
(* edge (api.py) and connector transport client (tunnel_client.py).        *)
(***************************************************************************)
EXTENDS Integers, Sequences, FiniteSets, TLC

\* ------------------------------------------------------------------ bounds
MaxSock == 3
MaxConn == 2
MaxKey == 2
MaxEx == 2
MaxFail == 2
MaxStream == 1
MaxRelaySock == 2

Socks == 1..MaxSock
ConnIds == 1..MaxConn
Keys == 1..MaxKey
ExIds == 1..MaxEx

\* None for a connector id, an api key / token, a socket reference
NoId == 0
NoKey == 0
NoSock == 0
\* a token that the store never generated
BogusKey == MaxKey + 1

Models == {"m1", "m2"}
\* the model lists a connector may advertise in AUTH
ModelLists == {<<"m1">>, <<"m1", "m2">>}

\* ------------------------------------------------------------------ state
VARIABLES
    \* broker transport server, per socket (one _handle_connection each)
    pc,                  \* position of the socket's handler
    s_cid,               \* handler local connector_id
    s_auth,              \* the AUTH frame the handler authenticated
    ws_closed,           \* the broker side of the websocket is closed
    inbox,               \* frames peer -> broker not yet received
    outbox,              \* frames broker -> peer not yet received
    reg,                 \* ConnectorRegistration object created by the handler
    connectors,          \* TunnelServer._connectors: connector_id -> registration
    pending_connections, \* TunnelServer._pending_connections
    \* connector store
    records,             \* ConnectorStore._connectors
    key_index,           \* ConnectorStore._api_key_index
    next_cid,            \* next fresh connector id
    next_key,            \* next fresh api key
    last_op,             \* the store method called last and what it returned
    \* model router
    r_connectors,        \* ModelRouter._connectors (insertion ordered)
    routes,              \* ModelRouter._routes
    r_before,            \* history: pairs <<c, d>>, c registered before d
    rb,                  \* position of a build_routes call in progress
    look,                \* an HTTP handler on its way through get_route
    \* broker HTTP edge, per exchange
    ex,                  \* the HTTP handler of the exchange
    slot,                \* the future or queue of the exchange
    \* connector transport client
    c_state,             \* TunnelClient._state
    c_pc,                \* position of the run() task
    c_ws,                \* TunnelClient._ws: the broker socket it is bound to
    c_link,              \* the client's end of _ws: none, open, closed, broken
    c_token,             \* TunnelClient.broker_token
    c_attempt,           \* TunnelClient._reconnect_attempt
    c_running,           \* TunnelClient._running
    c_connector_id,      \* TunnelClient._connector_id
    c_fails,             \* connection failures the environment caused so far
    c_cred,              \* history: the last credential frame the client took
    sent,                \* history: per exchange, the frames its connector wrote
    task,                \* connector: the _handle_request task of each REQUEST
    t_up,                \* connector: send_message still reaches the broker
    bo,                  \* client: the configuration and last _handle_reconnect
    disk,                \* store: the connectors file and how the last _save ended
    b_running,           \* TunnelServer._running
    legacy,              \* TunnelServer.connector_tokens and connector_configs
    ka,                  \* history: keepalive PINGs the client wrote, PONGs written to it
    wr                   \* the writes in progress on the two ends of one connector socket

bvars == <<pc, s_cid, s_auth, ws_closed, inbox, outbox, reg, connectors,
           pending_connections>>
svars == <<records, key_index, next_cid, next_key, last_op>>
rvars == <<r_connectors, routes, r_before, rb, look>>
xvars == <<ex, slot>>
cvars == <<c_state, c_pc, c_ws, c_link, c_token, c_attempt, c_running,
           c_connector_id, c_fails, c_cred>>
\* histories and state of the parts added below
mvars == <<legacy, ka, wr>>
nvars == <<sent, task, t_up, bo, disk, b_running, mvars>>
vars == <<bvars, svars, rvars, xvars, cvars, nvars>>

\* ----------------------------------------------------------------- frames
\* TunnelMessage {type, id, payload}; the payload fields used are folded in:
\* tok is token / api_key / connector_id / session_id, mods the model list.
Msg(t, i, k, m) == [type |-> t, id |-> i, tok |-> k, mods |-> m]
\* the end-of-stream sentinel (None) of a streaming queue
Sentinel == Msg("NONE", NoId, NoKey, <<>>)
\* the correlation id of AUTH frames ("auth-...") and of pings, never an
\* exchange id
AuthId == MaxEx + 1

\* ========================================================================
\* Connector store (connectors.py)
\* ========================================================================
NoRecord == [status |-> "absent", api_key |-> NoKey, models |-> <<>>]

\* a call of a store method: its name, its connector_id and api_key
\* arguments, and its return value (a connector_id, an api_key, 1 for true,
\* 0 for false or None)
StoreCall(op, cid, k, ret) == [op |-> op, cid |-> cid, key |-> k, ret |-> ret]
NoOp == StoreCall("none", NoId, NoKey, 0)

get_by_api_key(k) == IF k \in Keys THEN key_index[k] ELSE NoId

\* ConnectorStore.create_pending: the new primary map
create_pending(cid, models) ==
    [records EXCEPT ![cid] =
        [status |-> "PENDING", api_key |-> NoKey, models |-> models]]

\* ConnectorStore.approve
\* variant: a REVOKED record is approved again
approve_ok_any(cid) == records[cid].status \in {"PENDING", "REVOKED"}
approve_ok(cid) == records[cid].status = "PENDING"
\* variant: the generated key is not stored on the record
approve_records_nokey(cid, k) ==
    IF approve_ok(cid) THEN [records EXCEPT ![cid].status = "APPROVED"]
    ELSE records
approve_records(cid, k) ==
    IF approve_ok(cid)
    THEN [records EXCEPT ![cid].status = "APPROVED", ![cid].api_key = k]
    ELSE records
approve_index(cid, k) ==
    IF approve_ok(cid) THEN [key_index EXCEPT ![k] = cid] ELSE key_index

\* ConnectorStore.revoke
revoke_ok(cid) == records[cid].status # "absent"
revoke_records(cid) ==
    IF revoke_ok(cid) THEN [records EXCEPT ![cid].status = "REVOKED"]
    ELSE records
drop_key(cid) ==
    LET k == records[cid].api_key IN
    IF k # NoKey /\ key_index[k] # NoId
    THEN [key_index EXCEPT ![k] = NoId] ELSE key_index
revoke_index(cid) == IF revoke_ok(cid) THEN drop_key(cid) ELSE key_index

\* ConnectorStore.delete
delete_ok(cid) == records[cid].status # "absent"
delete_records(cid) ==
    IF delete_ok(cid) THEN [records EXCEPT ![cid] = NoRecord] ELSE records
\* variant: the key of the deleted record stays in the index
delete_index_keep(cid) == key_index
delete_index(cid) == IF delete_ok(cid) THEN drop_key(cid) ELSE key_index

\* ConnectorStore.update_models
update_models(recs, cid, models) ==
    IF recs[cid].status # "absent" THEN [recs EXCEPT ![cid].models = models]
    ELSE recs

\* ConnectorStore._load: the key index rebuilt from the persisted records,
\* every record with an api_key is indexed, later records overwrite earlier
RECURSIVE load_index(_, _)
load_index(recs, cid) ==
    IF cid = 0 THEN [k \in Keys |-> NoId]
    ELSE LET prev == load_index(recs, cid - 1) IN
         IF recs[cid].status # "absent" /\ recs[cid].api_key # NoKey
         THEN [prev EXCEPT ![recs[cid].api_key] = cid]
         ELSE prev

\* ---- persistence: _save and _load ----------------------------------------
\* the connectors file: state is "none" (no file), "ok" (a document, doc) or
\* "corrupt" (a truncated document); last is how the latest _save ended
Disk(state, doc, last) == [state |-> state, doc |-> doc, last |-> last]
NoDisk == Disk("none", [c \in ConnIds |-> NoRecord], "none")

\* the ways _save ends: the document is written; mkdir or open raises and
\* the file stays as it was; yaml.dump raises after open truncated the file
SaveOutcomes == {"ok", "fail_open", "fail_write"}

\* the file after _save of the records recs ended as sv
save_disk(sv, recs) ==
    IF sv = "ok" THEN Disk("ok", recs, sv)
    ELSE IF sv = "fail_open" THEN Disk(disk.state, disk.doc, sv)
    ELSE Disk("corrupt", NoDisk.doc, sv)

\* the value a store method returns when it raised instead of returning
Raised == 0 - 1

\* variant: the exception of a failed _save leaves the mutation
save_return_raise(sv, ret) == IF sv = "ok" THEN ret ELSE Raised

\* what a mutation returns after its _save ended as sv: _save logs the
\* exception and returns
save_return(sv, ret) == ret

\* ConnectorStore._load: the records of the document, none when there is no
\* file or it does not parse
load_records == IF disk.state = "ok" THEN disk.doc ELSE NoDisk.doc

\* variant: the status of the record found is not examined
validate_api_key_nostatus(k) == get_by_api_key(k)

\* ConnectorStore.validate_api_key
validate_api_key(k) ==
    LET c == get_by_api_key(k) IN
    IF c = NoId \/ records[c].status # "APPROVED" THEN NoId ELSE c

\* ========================================================================
\* Model router (router.py)
\* ========================================================================
NoRoute == [connector_id |-> NoId, llm_api_key |-> NoKey]
\* self._routes after clear()
EmptyRoutes == [m \in Models |-> NoRoute]
\* no build_routes call is in progress
RbIdle == [pc |-> "idle", i |-> 1, j |-> 1, old |-> EmptyRoutes]
\* no HTTP handler is between its body read and get_route
NoLook == [st |-> "none", model |-> "m1", waited |-> FALSE, first |-> NoRoute,
           before |-> NoRoute, after |-> NoRoute, ret |-> NoRoute]

RECURSIVE add_models(_, _, _, _)
add_models(rt, info, models, i) ==
    IF i > Len(models) THEN rt
    ELSE IF rt[models[i]].connector_id = NoId
         THEN add_models([rt EXCEPT ![models[i]] =
                            [connector_id |-> info.connector_id,
                             llm_api_key |-> info.llm_api_key]],
                         info, models, i + 1)
         ELSE add_models(rt, info, models, i + 1)

RECURSIVE build_from(_, _, _)
build_from(conns, i, rt) ==
    IF i > Len(conns) THEN rt
    ELSE build_from(conns, i + 1, add_models(rt, conns[i], conns[i].models, 1))

\* ModelRouter.build_routes
build_routes(conns) == build_from(conns, 1, [m \in Models |-> NoRoute])

\* ModelRouter.get_route
get_route(m) == routes[m]

r_index(conns, cid) ==
    IF \E i \in 1..Len(conns) : conns[i].connector_id = cid
    THEN CHOOSE i \in 1..Len(conns) : conns[i].connector_id = cid
    ELSE 0

r_ids(conns) == {conns[i].connector_id : i \in 1..Len(conns)}

\* variant: assigning an existing key moves it behind all other keys
dict_set_last(conns, info) ==
    Append(SelectSeq(conns, LAMBDA x : x.connector_id # info.connector_id),
           info)

\* dict assignment self._connectors[connector_id] = info: an existing key
\* keeps its position, a new key is appended
dict_set(conns, info) ==
    LET i == r_index(conns, info.connector_id) IN
    IF i = 0 THEN Append(conns, info) ELSE [conns EXCEPT ![i] = info]

dict_pop(conns, cid) ==
    SelectSeq(conns, LAMBDA x : x.connector_id # cid)

\* ModelRouter.on_connector_registered
on_connector_registered(cid, models, key) ==
    LET info == [connector_id |-> cid, models |-> models, llm_api_key |-> key]
        conns == dict_set(r_connectors, info) IN
    /\ r_connectors' = conns
    /\ routes' = build_routes(conns)
    /\ r_before' = IF cid \in r_ids(r_connectors) THEN r_before
                   ELSE r_before \cup {<<d, cid>> : d \in r_ids(r_connectors)}
    /\ UNCHANGED <<rb, look>>

\* variant: the router keeps a connector that disconnected
on_connector_disconnected_keep(cid) == UNCHANGED rvars

\* ModelRouter.on_connector_disconnected
on_connector_disconnected(cid) ==
    IF cid \in r_ids(r_connectors)
    THEN /\ r_connectors' = dict_pop(r_connectors, cid)
         /\ routes' = build_routes(dict_pop(r_connectors, cid))
         /\ r_before' = {p \in r_before : p[1] # cid /\ p[2] # cid}
         /\ UNCHANGED <<rb, look>>
    ELSE UNCHANGED rvars

\* ========================================================================
\* Broker transport server (tunnel_server.py)
\* ========================================================================
NoReg == [models |-> <<>>, pend |-> {}, llm_api_key |-> NoKey]
NoSlot == [kind |-> "none", done |-> FALSE, exc |-> "none",
           val |-> Sentinel, q |-> <<>>]

Send(box, s, m) == [box EXCEPT ![s] = Append(@, m)]

\* tokens a peer can present: none, a key the store handed out, a made-up one
PeerTokens == {NoKey, BogusKey} \cup {k \in Keys : k < next_key}

\* a new socket is accepted (ws.prepare) and the peer sends its first frame,
\* or nothing at all (fr = Sentinel)
PeerOpen(s, fr) ==
    /\ pc[s] = "free"
    /\ \A t \in Socks : t < s => pc[t] # "free"
    /\ pc' = [pc EXCEPT ![s] = "await_auth"]
    /\ inbox' = [inbox EXCEPT ![s] = IF fr = Sentinel THEN <<>> ELSE <<fr>>]
    /\ UNCHANGED <<s_cid, s_auth, ws_closed, outbox, reg, connectors,
                   pending_connections, svars, rvars, xvars>>

AuthFrames ==
    {Msg("AUTH", AuthId, k, m) : k \in PeerTokens, m \in ModelLists}
FirstFrames ==
    AuthFrames \cup {Msg("PONG", AuthId, NoKey, <<>>),
                     Msg("GARBAGE", NoId, NoKey, <<>>),
                     Msg("CLOSE", NoId, NoKey, <<>>), Sentinel}

\* variant: the handler ends and leaves the socket open
AuthEnd_no_close(s, replies) ==
    /\ pc' = [pc EXCEPT ![s] = "closed"]
    /\ inbox' = [inbox EXCEPT ![s] = <<>>]
    /\ outbox' = [outbox EXCEPT ![s] = @ \o replies]
    /\ UNCHANGED <<s_cid, s_auth, reg, connectors, pending_connections,
                   svars, rvars, xvars, ws_closed>>

\* the handler ends without a registration or a pending admission
AuthEnd(s, replies) ==
    /\ pc' = [pc EXCEPT ![s] = "closed"]
    /\ ws_closed' = [ws_closed EXCEPT ![s] = TRUE]
    /\ inbox' = [inbox EXCEPT ![s] = <<>>]
    /\ outbox' = [outbox EXCEPT ![s] = @ \o replies]
    /\ UNCHANGED <<s_cid, s_auth, reg, connectors, pending_connections,
                   svars, rvars, xvars>>

\* _authenticate: no frame within auth_timeout
AuthTimeout(s) ==
    /\ pc[s] = "await_auth" /\ inbox[s] = <<>>
    /\ AuthEnd(s, <<>>)

\* _authenticate: the peer closed (returns None, _handle_connection fails on
\* auth_result.status) or the frame does not decode
AuthBroken(s) ==
    /\ pc[s] = "await_auth" /\ inbox[s] # <<>>
    /\ Head(inbox[s]).type \in {"CLOSE", "GARBAGE"}
    /\ AuthEnd(s, <<>>)

\* _authenticate: a decodable frame that is not AUTH
AuthNotAuth(s) ==
    /\ pc[s] = "await_auth" /\ inbox[s] # <<>>
    /\ Head(inbox[s]).type \notin {"CLOSE", "GARBAGE", "AUTH"}
    /\ AuthEnd(s, <<Msg("AUTH_FAIL", Head(inbox[s]).id, NoKey, <<>>)>>)

\* variant: the status of the record found is not examined for REVOKED
AuthCase_no_revoked(f) ==
    LET c == IF f.tok # NoKey THEN get_by_api_key(f.tok) ELSE NoId IN
    IF c # NoId /\ records[c].status = "APPROVED" THEN "approved"
    ELSE "pending"

\* the three outcomes of _authenticate_with_store
AuthCase(f) ==
    LET c == IF f.tok # NoKey THEN get_by_api_key(f.tok) ELSE NoId IN
    IF c # NoId /\ records[c].status = "APPROVED" THEN "approved"
    ELSE IF c # NoId /\ records[c].status = "REVOKED" THEN "revoked"
    ELSE "pending"

\* _authenticate_with_store, APPROVED record: AUTH_OK, then _handle_connection
\* registers the connector and notifies the router
AuthApproved(s) ==
    /\ pc[s] = "await_auth" /\ inbox[s] # <<>>
    /\ Head(inbox[s]).type = "AUTH" /\ AuthCase(Head(inbox[s])) = "approved"
    /\ LET f == Head(inbox[s])
           c == get_by_api_key(f.tok) IN
       /\ outbox' = Send(outbox, s, Msg("AUTH_OK", f.id, c, <<>>))
       /\ records' = IF f.mods # records[c].models
                     THEN update_models(records, c, f.mods) ELSE records
       /\ s_cid' = [s_cid EXCEPT ![s] = c]
       /\ s_auth' = [s_auth EXCEPT ![s] = f]
       /\ reg' = [reg EXCEPT ![s] = [models |-> f.mods, pend |-> {},
                                     llm_api_key |-> NoKey]]
       /\ connectors' = [connectors EXCEPT ![c] = s]
       /\ on_connector_registered(c, f.mods, NoKey)
       /\ pc' = [pc EXCEPT ![s] = "accepted"]
       /\ inbox' = [inbox EXCEPT ![s] = Tail(@)]
       /\ UNCHANGED <<ws_closed, pending_connections, key_index, next_cid,
                      next_key, last_op, xvars>>

\* _authenticate_with_store, REVOKED record still in the key index
AuthRevoked(s) ==
    /\ pc[s] = "await_auth" /\ inbox[s] # <<>>
    /\ Head(inbox[s]).type = "AUTH" /\ AuthCase(Head(inbox[s])) = "revoked"
    /\ AuthEnd(s, <<Msg("AUTH_FAIL", Head(inbox[s]).id, NoKey, <<>>)>>)

\* _authenticate_with_store, no token or unknown token: create_pending and
\* PENDING; _handle_connection records the pending admission
AuthPending(s) ==
    /\ pc[s] = "await_auth" /\ inbox[s] # <<>>
    /\ Head(inbox[s]).type = "AUTH" /\ AuthCase(Head(inbox[s])) = "pending"
    /\ next_cid \in ConnIds
    /\ LET f == Head(inbox[s])
           c == next_cid IN
       /\ records' = create_pending(c, f.mods)
       /\ next_cid' = next_cid + 1
       /\ outbox' = Send(outbox, s, Msg("PENDING", f.id, c, <<>>))
       /\ s_cid' = [s_cid EXCEPT ![s] = c]
       /\ s_auth' = [s_auth EXCEPT ![s] = f]
       /\ pending_connections' = [pending_connections EXCEPT ![c] = s]
       /\ pc' = [pc EXCEPT ![s] = "pending"]
       /\ inbox' = [inbox EXCEPT ![s] = Tail(@)]
       /\ UNCHANGED <<ws_closed, reg, connectors, key_index, next_key,
                      last_op, rvars, xvars>>

\* ---- legacy mode of _authenticate: connector_store is None -------------
\* connector_tokens (used for membership only) and connector_configs, the
\* dict token -> llm_api_key
Legacy(tokens, configs) == [tokens |-> tokens, configs |-> configs]

\* a server built without static tokens
NoLegacy == Legacy({}, <<>>)

\* token 1 has an upstream key configured, token 2 has none
LegacyConfigs ==
    {Legacy({}, [k \in {1} |-> 2]), Legacy({1, 2}, [k \in {1} |-> 2])}

LegacyFrames ==
    {Msg("AUTH", AuthId, k, m) : k \in {NoKey, BogusKey} \cup Keys,
                                 m \in ModelLists}

\* variant: an AUTH without a token passes the check
token_valid_absent_ok(tokens, tok) ==
    tokens = {} \/ tok = NoKey \/ tok \in tokens

\* not (self.connector_tokens and payload.token not in self.connector_tokens)
token_valid(tokens, tok) == tokens = {} \/ tok \in tokens

\* self.connector_configs.get(payload.token) if payload.token else None
configs_get(tok) ==
    IF tok # NoKey /\ tok \in DOMAIN legacy.configs THEN legacy.configs[tok]
    ELSE NoKey

\* legacy mode, token rejected: AUTH_FAIL, close, FAILED
LegacyFail(s) ==
    /\ pc[s] = "await_auth" /\ inbox[s] # <<>>
    /\ Head(inbox[s]).type = "AUTH"
    /\ ~token_valid(legacy.tokens, Head(inbox[s]).tok)
    /\ AuthEnd(s, <<Msg("AUTH_FAIL", Head(inbox[s]).id, NoKey, <<>>)>>)

\* legacy mode, token accepted: a new connector_id (uuid4, modelled by the
\* counter of ids handed out), AUTH_OK, then _handle_connection registers the
\* connector and notifies the router
LegacyOk(s) ==
    /\ pc[s] = "await_auth" /\ inbox[s] # <<>>
    /\ Head(inbox[s]).type = "AUTH"
    /\ token_valid(legacy.tokens, Head(inbox[s]).tok)
    /\ next_cid \in ConnIds
    /\ LET f == Head(inbox[s])
           c == next_cid
           key == configs_get(f.tok) IN
       /\ next_cid' = next_cid + 1
       /\ outbox' = Send(outbox, s, Msg("AUTH_OK", f.id, c, <<>>))
       /\ s_cid' = [s_cid EXCEPT ![s] = c]
       /\ s_auth' = [s_auth EXCEPT ![s] = f]
       /\ reg' = [reg EXCEPT ![s] = [models |-> f.mods, pend |-> {},
                                     llm_api_key |-> key]]
       /\ connectors' = [connectors EXCEPT ![c] = s]
       /\ on_connector_registered(c, f.mods, key)
       /\ pc' = [pc EXCEPT ![s] = "accepted"]
       /\ inbox' = [inbox EXCEPT ![s] = Tail(@)]
       /\ UNCHANGED <<ws_closed, pending_connections, records, key_index,
                      next_key, last_op, xvars>>

\* ---- the finally block of _handle_connection --------------------------
\* a future that is not done gets ConnectionError, a queue gets None
drain_slot(sl) ==
    IF sl.kind = "future"
    THEN IF sl.done THEN sl ELSE [sl EXCEPT !.done = TRUE, !.exc = "disconnect"]
    ELSE IF sl.kind = "queue" THEN [sl EXCEPT !.q = Append(@, Sentinel)]
    ELSE sl

\* the registration the cleanup of a handler with connector_id cid drains
cleanup_target(cid) == IF cid = NoId THEN NoSock ELSE connectors[cid]

cleanup_pending(cid) ==
    IF cid # NoId /\ pending_connections[cid] # NoSock
    THEN [pending_connections EXCEPT ![cid] = NoSock]
    ELSE pending_connections

HandlerCleanup(s) ==
    LET cid == s_cid[s]
        t == cleanup_target(cid) IN
    /\ pending_connections' = cleanup_pending(cid)
    /\ IF t # NoSock
       THEN /\ slot' = [e \in ExIds |->
                          IF e \in reg[t].pend THEN drain_slot(slot[e])
                          ELSE slot[e]]
            /\ connectors' = [connectors EXCEPT ![cid] = NoSock]
            /\ on_connector_disconnected(cid)
       ELSE UNCHANGED <<slot, connectors, rvars>>

\* ---- pending admission: async for msg in websocket ---------------------
\* variant: a PING is answered with a PONG of the same id
PendingHandle_pong(s, f, rest) ==
    /\ pc[s] = "pending"
    /\ IF f.type \in {"CLOSE", "GARBAGE"}
       THEN /\ HandlerCleanup(s)
            /\ pc' = [pc EXCEPT ![s] = "closed"]
            /\ ws_closed' = [ws_closed EXCEPT ![s] = TRUE]
            /\ inbox' = [inbox EXCEPT ![s] = <<>>]
            /\ UNCHANGED <<s_cid, s_auth, outbox, reg, svars, ex>>
       ELSE /\ inbox' = [inbox EXCEPT ![s] = rest]
            /\ outbox' = IF f.type = "PING"
                         THEN Send(outbox, s, Msg("PONG", f.id, NoKey, <<>>))
                         ELSE outbox
            /\ UNCHANGED <<pc, s_cid, s_auth, ws_closed, reg,
                           connectors, pending_connections, svars, rvars,
                           xvars>>

\* frames other than close are decoded and ignored; a frame that does not
\* decode raises out of the loop; either way the finally block runs
PendingHandle(s, f, rest) ==
    /\ pc[s] = "pending"
    /\ IF f.type \in {"CLOSE", "GARBAGE"}
       THEN /\ HandlerCleanup(s)
            /\ pc' = [pc EXCEPT ![s] = "closed"]
            /\ ws_closed' = [ws_closed EXCEPT ![s] = TRUE]
            /\ inbox' = [inbox EXCEPT ![s] = <<>>]
            /\ UNCHANGED <<s_cid, s_auth, outbox, reg, svars, ex>>
       ELSE /\ inbox' = [inbox EXCEPT ![s] = rest]
            /\ UNCHANGED <<pc, s_cid, s_auth, ws_closed, outbox, reg,
                           connectors, pending_connections, svars, rvars,
                           xvars>>

\* the handler takes the next frame the peer wrote
PendingRecv(s) ==
    /\ inbox[s] # <<>>
    /\ PendingHandle(s, Head(inbox[s]), Tail(inbox[s]))

\* a frame arrives from the peer and the waiting handler takes it
PendingInput(s, f) ==
    /\ inbox[s] = <<>>
    /\ PendingHandle(s, f, <<>>)

\* the broker closes a socket (websocket.close()): a handler waiting in
\* receive() is woken with a closing message; unread frames are dropped.
\* A pending handler returns straight into its finally block; an accepted
\* handler first awaits the cancelled ping task (pc "closing").
close_pc(s) == IF pc[s] = "accepted" THEN "closing" ELSE "closed"

\* ---- accepted connector: _message_loop and _handle_message -------------
\* variant: the frame completes whichever entry of the registration is oldest
pending_key_any(t, id) ==
    IF reg[t].pend = {} THEN NoId
    ELSE CHOOSE e \in reg[t].pend : \A d \in reg[t].pend : e <= d

\* connector.pending_requests.get(correlation_id) in registration t
pending_key(t, id) == IF id \in reg[t].pend THEN id ELSE NoId

\* variant: a frame of a stream is put at the front of its queue
hm_slot_front(cid, f) ==
    LET t == connectors[cid]
        e == IF t = NoSock \/ f.type = "PONG" THEN NoId
             ELSE pending_key(t, f.id) IN
    IF e = NoId THEN slot
    ELSE IF slot[e].kind = "future"
         THEN IF f.type \in {"RESPONSE", "ERROR"} /\ ~slot[e].done
              THEN [slot EXCEPT ![e].done = TRUE, ![e].val = f]
              ELSE slot
         ELSE IF slot[e].kind = "queue"
              THEN IF f.type \in {"STREAM_END", "ERROR"}
                   THEN [slot EXCEPT ![e].q = <<f>> \o @ \o <<Sentinel>>]
                   ELSE [slot EXCEPT ![e].q = <<f>> \o @]
              ELSE slot

\* the slots after _handle_message(connector_id, f) ran
hm_slot(cid, f) ==
    LET t == connectors[cid]
        e == IF t = NoSock \/ f.type = "PONG" THEN NoId
             ELSE pending_key(t, f.id) IN
    IF e = NoId THEN slot
    ELSE IF slot[e].kind = "future"
         THEN IF f.type \in {"RESPONSE", "ERROR"} /\ ~slot[e].done
              THEN [slot EXCEPT ![e].done = TRUE, ![e].val = f]
              ELSE slot
         ELSE IF slot[e].kind = "queue"
              THEN IF f.type \in {"STREAM_END", "ERROR"}
                   THEN [slot EXCEPT ![e].q = @ \o <<f, Sentinel>>]
                   ELSE [slot EXCEPT ![e].q = Append(@, f)]
              ELSE slot

\* the registrations after _handle_message(connector_id, f) ran: a streaming
\* entry is popped on its terminator
hm_reg(cid, f) ==
    LET t == connectors[cid]
        e == IF t = NoSock \/ f.type = "PONG" THEN NoId
             ELSE pending_key(t, f.id) IN
    IF e # NoId /\ slot[e].kind = "queue"
       /\ f.type \in {"STREAM_END", "ERROR"}
    THEN [reg EXCEPT ![t].pend = @ \ {e}]
    ELSE reg

AcceptedHandle(s, f, rest) ==
    /\ pc[s] = "accepted"
    /\ IF f.type = "CLOSE"
       THEN /\ pc' = [pc EXCEPT ![s] = "closing"]
            /\ ws_closed' = [ws_closed EXCEPT ![s] = TRUE]
            /\ inbox' = [inbox EXCEPT ![s] = <<>>]
            /\ UNCHANGED <<s_cid, s_auth, outbox, reg, connectors,
                           pending_connections, svars, rvars, xvars>>
       ELSE /\ inbox' = [inbox EXCEPT ![s] = rest]
            /\ slot' = IF f.type = "GARBAGE" THEN slot
                       ELSE hm_slot(s_cid[s], f)
            /\ reg' = IF f.type = "GARBAGE" THEN reg
                      ELSE hm_reg(s_cid[s], f)
            /\ UNCHANGED <<pc, s_cid, s_auth, ws_closed, outbox,
                           connectors, pending_connections, svars, rvars,
                           ex>>

\* the message loop takes the next frame the peer wrote
AcceptedRecv(s) ==
    /\ inbox[s] # <<>>
    /\ AcceptedHandle(s, Head(inbox[s]), Tail(inbox[s]))

\* a frame arrives from the peer and the waiting message loop takes it
AcceptedInput(s, f) ==
    /\ inbox[s] = <<>>
    /\ AcceptedHandle(s, f, <<>>)

\* the finally block of _handle_connection of an accepted connector, after
\* the ping task was awaited
Cleanup(s) ==
    /\ pc[s] = "closing"
    /\ HandlerCleanup(s)
    /\ pc' = [pc EXCEPT ![s] = "closed"]
    /\ UNCHANGED <<s_cid, s_auth, ws_closed, inbox, outbox, reg, svars, ex>>

\* ---- the peer -----------------------------------------------------------
CtlFrames == {Msg("PONG", AuthId, NoKey, <<>>), Msg("PING", AuthId, NoKey, <<>>),
              Msg("GARBAGE", NoId, NoKey, <<>>)}
\* RESPONSE and ERROR carry payload.status in tok
OkStatus == 200
ErrStatus == 500
DataFrames ==
    {Msg("RESPONSE", e, OkStatus, <<>>) : e \in ExIds}
    \cup {Msg("ERROR", e, ErrStatus, <<>>) : e \in ExIds}
    \cup {Msg(t, e, NoKey, <<>>) : t \in {"STREAM_CHUNK", "STREAM_END"},
                                   e \in ExIds}

Close == Msg("CLOSE", NoId, NoKey, <<>>)

\* a frame of an exchange whose REQUEST was written; the peer sends at most
\* MaxStream frames that do not end the exchange
DataInput(s, f) ==
    /\ ex[f.id].st # "idle"
    /\ f.type \in {"STREAM_CHUNK", "RESPONSE"} =>
          Len(slot[f.id].q) + Len(ex[f.id].seen) < MaxStream
    /\ AcceptedInput(s, f)

\* ---- admin notifications ------------------------------------------------
\* what notify_approval returns: a pending admission was found and written to
notify_approval_result(cid) == pending_connections[cid] # NoSock

\* what notify_revoke returns: REVOKED was written to the accepted socket, or
\* the pending socket was closed
notify_revoke_result(cid) ==
    IF connectors[cid] # NoSock THEN ~ws_closed[connectors[cid]]
    ELSE pending_connections[cid] # NoSock

\* variant: APPROVED is written and the socket is left open
notify_approval_no_close(cid, k) ==
    LET p == pending_connections[cid] IN
    IF p = NoSock
    THEN UNCHANGED <<bvars, rvars, xvars>>
    ELSE /\ outbox' = Send(outbox, p, Msg("APPROVED", s_auth[p].id, k, <<>>))
         /\ UNCHANGED <<pc, s_cid, s_auth, ws_closed, inbox, reg, connectors,
                        pending_connections, rvars, xvars>>

\* TunnelServer.notify_approval
notify_approval(cid, k) ==
    LET p == pending_connections[cid] IN
    IF p = NoSock
    THEN UNCHANGED <<bvars, rvars, xvars>>
    ELSE /\ outbox' = Send(outbox, p, Msg("APPROVED", s_auth[p].id, k, <<>>))
         /\ HandlerCleanup(p)
         /\ pc' = [pc EXCEPT ![p] = close_pc(p)]
         /\ ws_closed' = [ws_closed EXCEPT ![p] = TRUE]
         /\ inbox' = [inbox EXCEPT ![p] = <<>>]
         /\ UNCHANGED <<s_cid, s_auth, reg, ex>>

\* TunnelServer.notify_revoke
notify_revoke(cid) ==
    LET t == connectors[cid]
        p == pending_connections[cid] IN
    IF t # NoSock
    THEN IF ws_closed[t]
         THEN UNCHANGED <<bvars, rvars, xvars>>
         ELSE /\ outbox' = Send(outbox, t, Msg("REVOKED", AuthId, NoKey, <<>>))
              /\ pc' = [pc EXCEPT ![t] = close_pc(t)]
              /\ ws_closed' = [ws_closed EXCEPT ![t] = TRUE]
              /\ inbox' = [inbox EXCEPT ![t] = <<>>]
              /\ UNCHANGED <<s_cid, s_auth, reg, connectors,
                             pending_connections, rvars, xvars>>
    ELSE IF p # NoSock
         THEN /\ HandlerCleanup(p)
              /\ pc' = [pc EXCEPT ![p] = close_pc(p)]
              /\ ws_closed' = [ws_closed EXCEPT ![p] = TRUE]
              /\ inbox' = [inbox EXCEPT ![p] = <<>>]
              /\ UNCHANGED <<s_cid, s_auth, outbox, reg, ex>>
         ELSE UNCHANGED <<bvars, rvars, xvars>>

\* AdminHandler.handle_approve_connector
AdminApprove(cid) ==
    /\ next_key \in Keys
    /\ records' = approve_records(cid, next_key)
    /\ key_index' = approve_index(cid, next_key)
    /\ next_key' = IF approve_ok(cid) THEN next_key + 1 ELSE next_key
    /\ UNCHANGED <<next_cid, last_op>>
    /\ IF approve_ok(cid) THEN notify_approval(cid, next_key)
       ELSE UNCHANGED <<bvars, rvars, xvars>>

\* AdminHandler.handle_revoke_connector
AdminRevoke(cid) ==
    /\ records' = revoke_records(cid)
    /\ key_index' = revoke_index(cid)
    /\ UNCHANGED <<next_cid, next_key, last_op>>
    /\ IF revoke_ok(cid) THEN notify_revoke(cid)
       ELSE UNCHANGED <<bvars, rvars, xvars>>

\* AdminHandler.handle_delete_connector
AdminDelete(cid) ==
    /\ records' = delete_records(cid)
    /\ key_index' = delete_index(cid)
    /\ UNCHANGED <<next_cid, next_key, last_op>>
    /\ IF delete_ok(cid) THEN notify_revoke(cid)
       ELSE UNCHANGED <<bvars, rvars, xvars>>

\* the broker is restarted while no socket is open: the store is loaded from
\* its persisted document, the transport server and the router start empty
Restart ==
    /\ \A s \in Socks : pc[s] \in {"free", "closed"}
    /\ \A e \in ExIds : ex[e].st \in {"idle", "done"}
    /\ key_index' = load_index(records, MaxConn)
    /\ key_index' # key_index
    /\ connectors' = [c \in ConnIds |-> NoSock]
    /\ pending_connections' = [c \in ConnIds |-> NoSock]
    /\ r_connectors' = <<>>
    /\ routes' = [m \in Models |-> NoRoute]
    /\ r_before' = {}
    /\ UNCHANGED <<pc, s_cid, s_auth, ws_closed, inbox, outbox, reg,
                   records, next_cid, next_key, last_op, rb, look, xvars>>

\* ========================================================================
\* Broker HTTP edge (api.py) over send_request / send_request_streaming
\* ========================================================================
Request(e) == Msg("REQUEST", e, NoKey, <<>>)

\* self.relay_server._connectors.get(connector_id)
registration_of(cid) == IF cid \in ConnIds THEN connectors[cid] ELSE NoSock

\* BrokerAPI._handle_chat_completions from the route lookup on, for a request
\* with correlation id e, model m and the stream flag
HttpStart(e, m, stream) ==
    /\ ex[e].st = "idle"
    /\ \A d \in ExIds : d < e => ex[d].st # "idle"
    /\ LET cid == get_route(m).connector_id
           t == registration_of(cid) IN
       IF cid = NoId
       THEN /\ ex' = [ex EXCEPT ![e].st = "done", ![e].status = 404]
            /\ UNCHANGED <<slot, reg, outbox>>
       ELSE IF t = NoSock
       THEN /\ ex' = [ex EXCEPT ![e].st = "done", ![e].status = 503]
            /\ UNCHANGED <<slot, reg, outbox>>
       ELSE IF ~stream
       THEN \* send_request: the future is registered, the REQUEST written;
            \* a failed write leaves through the finally block
            IF ws_closed[t]
            THEN /\ ex' = [ex EXCEPT ![e].st = "done", ![e].status = 502,
                                     ![e].kind = "unary", ![e].reg = t]
                 /\ slot' = [slot EXCEPT ![e].kind = "future"]
                 /\ UNCHANGED <<reg, outbox>>
            ELSE /\ ex' = [ex EXCEPT ![e].st = "waiting",
                                     ![e].kind = "unary", ![e].reg = t]
                 /\ slot' = [slot EXCEPT ![e].kind = "future"]
                 /\ reg' = [reg EXCEPT ![t].pend = @ \cup {e}]
                 /\ outbox' = Send(outbox, t, Request(e))
       ELSE \* send_request_streaming: the queue is registered, the REQUEST
            \* written; a failed write raises past the registration
            IF ws_closed[t]
            THEN /\ ex' = [ex EXCEPT ![e].st = "done", ![e].status = 200,
                                     ![e].kind = "stream", ![e].reg = t]
                 /\ slot' = [slot EXCEPT ![e].kind = "queue"]
                 /\ reg' = [reg EXCEPT ![t].pend = @ \cup {e}]
                 /\ UNCHANGED outbox
            ELSE /\ ex' = [ex EXCEPT ![e].st = "streaming", ![e].status = 200,
                                     ![e].kind = "stream", ![e].reg = t]
                 /\ slot' = [slot EXCEPT ![e].kind = "queue"]
                 /\ reg' = [reg EXCEPT ![t].pend = @ \cup {e}]
                 /\ outbox' = Send(outbox, t, Request(e))
    /\ UNCHANGED <<pc, s_cid, s_auth, ws_closed, inbox, connectors,
                   pending_connections, svars, rvars>>

\* the user keys the broker is configured with
UserApiKeys == {1}
\* the Authorization header of a request: NoKey when it is missing or not a
\* Bearer header, else the token it carries
Headers == {NoKey, 1, BogusKey}
\* a body without a model field, or one that is not JSON
NoModel == "none"

\* BrokerAPI._validate_user_api_key: TRUE when the request may proceed
validate_user_api_key(hdr) == UserApiKeys = {} \/ hdr \in UserApiKeys

\* the handler answers without looking for a route
HttpReject(e, status) ==
    /\ ex[e].st = "idle"
    /\ \A d \in ExIds : d < e => ex[d].st # "idle"
    /\ ex' = [ex EXCEPT ![e].st = "done", ![e].status = status]
    /\ UNCHANGED <<bvars, svars, rvars, slot>>

\* variant: the model field is examined before the user key
HttpHandle_model_first(e, hdr, m, stream) ==
    IF m = NoModel THEN HttpReject(e, 400)
    ELSE IF ~validate_user_api_key(hdr) THEN HttpReject(e, 401)
    ELSE HttpStart(e, m, stream)

\* BrokerAPI._handle_chat_completions for a request with correlation id e,
\* Authorization header hdr, model m and the stream flag
HttpHandle(e, hdr, m, stream) ==
    IF ~validate_user_api_key(hdr) THEN HttpReject(e, 401)
    ELSE IF m = NoModel THEN HttpReject(e, 400)
    ELSE HttpStart(e, m, stream)

\* variant: a ConnectionError of send_request is answered like a timeout
HttpUnaryResume_disconnect_504(e) ==
    /\ ex[e].st = "waiting" /\ slot[e].done
    /\ ex' = [ex EXCEPT ![e].st = "done",
                        ![e].status = IF slot[e].exc = "disconnect" THEN 504
                                      ELSE slot[e].val.tok,
                        ![e].seen = IF slot[e].exc = "disconnect" THEN <<>>
                                    ELSE <<slot[e].val>>]
    /\ reg' = [reg EXCEPT ![ex[e].reg].pend = @ \ {e}]
    /\ UNCHANGED <<pc, s_cid, s_auth, ws_closed, inbox, outbox, connectors,
                   pending_connections, svars, rvars, slot>>

\* send_request resumes with the result or the exception of the future, the
\* finally block pops the entry; _handle_non_streaming_response maps it
HttpUnaryResume(e) ==
    /\ ex[e].st = "waiting" /\ slot[e].done
    /\ ex' = [ex EXCEPT ![e].st = "done",
                        ![e].status = IF slot[e].exc = "disconnect" THEN 502
                                      ELSE slot[e].val.tok,
                        ![e].seen = IF slot[e].exc = "disconnect" THEN <<>>
                                    ELSE <<slot[e].val>>]
    /\ reg' = [reg EXCEPT ![ex[e].reg].pend = @ \ {e}]
    /\ UNCHANGED <<pc, s_cid, s_auth, ws_closed, inbox, outbox, connectors,
                   pending_connections, svars, rvars, slot>>

\* variant: the entry of a request that timed out stays in the pending map
HttpTimeout_keep_entry(e) ==
    /\ ex[e].st = "waiting" /\ ~slot[e].done
    /\ slot' = [slot EXCEPT ![e].done = TRUE, ![e].exc = "cancelled"]
    /\ ex' = [ex EXCEPT ![e].st = "done", ![e].status = 504,
                        ![e].timed_out = TRUE]
    /\ UNCHANGED <<pc, s_cid, s_auth, ws_closed, inbox, outbox, connectors,
                   pending_connections, svars, rvars, reg>>

\* asyncio.wait_for(response_future, timeout) expires: the future is
\* cancelled, the finally block pops the entry, the edge answers 504
HttpTimeout(e) ==
    /\ ex[e].st = "waiting" /\ ~slot[e].done
    /\ slot' = [slot EXCEPT ![e].done = TRUE, ![e].exc = "cancelled"]
    /\ ex' = [ex EXCEPT ![e].st = "done", ![e].status = 504,
                        ![e].timed_out = TRUE]
    /\ reg' = [reg EXCEPT ![ex[e].reg].pend = @ \ {e}]
    /\ UNCHANGED <<pc, s_cid, s_auth, ws_closed, inbox, outbox, connectors,
                   pending_connections, svars, rvars>>

\* variant: the consumer loop does not stop on an ERROR envelope
stream_stop_no_error(item) == item.type \in {"NONE", "STREAM_END"}

\* the item ends the consumer loop of _handle_streaming_response
stream_stop(item) == item.type \in {"NONE", "ERROR", "STREAM_END"}

\* _handle_streaming_response: one queue.get() of the consumer loop
HttpStreamGet(e) ==
    /\ ex[e].st = "streaming" /\ slot[e].q # <<>>
    /\ LET item == Head(slot[e].q) IN
       /\ slot' = [slot EXCEPT ![e].q = Tail(@)]
       /\ ex' = [ex EXCEPT ![e].seen = Append(@, item),
                           ![e].st = IF stream_stop(item) THEN "done"
                                     ELSE "streaming"]
    /\ UNCHANGED <<bvars, svars, rvars>>

\* _handle_streaming_response: queue.get() expires after request_timeout
HttpStreamTimeout(e) ==
    /\ ex[e].st = "streaming" /\ slot[e].q = <<>>
    /\ ex' = [ex EXCEPT ![e].st = "done", ![e].timed_out = TRUE]
    /\ UNCHANGED <<bvars, svars, rvars, slot>>

\* ========================================================================
\* Connector transport client (tunnel_client.py)
\* ========================================================================
\* the model list the connector is configured with
ClientModels == <<"m1">>

bvars_c == <<bvars, svars, rvars, xvars>>

\* self._ws.close(): the client's end is closed, the broker's handler will
\* read the close
client_close_link == IF c_link = "open" THEN "closed" ELSE c_link
client_close_inbox ==
    IF c_link = "open" /\ c_ws # NoSock /\ ~ws_closed[c_ws]
    THEN [inbox EXCEPT ![c_ws] = Append(@, Close)]
    ELSE inbox

\* run(): self._running = True
ClientRun ==
    /\ c_pc = "init"
    /\ c_running' = TRUE
    /\ c_pc' = "loop"
    /\ UNCHANGED <<c_state, c_ws, c_link, c_cred, nvars, c_token, c_attempt, c_connector_id,
                   c_fails, bvars_c>>

\* run(): the head of the while loop
ClientLoop ==
    /\ c_pc = "loop"
    /\ IF ~c_running
       THEN c_pc' = "stopped" /\ UNCHANGED c_state
       ELSE IF c_state = "DISCONNECTED"
       THEN c_pc' = "connecting" /\ c_state' = "CONNECTING"
       ELSE c_pc' = "msgloop" /\ UNCHANGED c_state
    /\ UNCHANGED <<c_ws, c_link, c_cred, nvars, c_token, c_attempt, c_running,
                   c_connector_id, c_fails, bvars_c>>

\* the broker socket a new connection lands on: the lowest one whose handler
\* has not started or has finished
FreeSock(s) ==
    /\ pc[s] \in {"free", "closed"}
    /\ \A t \in Socks : t < s => pc[t] \notin {"free", "closed"}

\* connect(): websockets.connect succeeds and the AUTH frame is sent
ClientConnected(s) ==
    /\ c_pc = "connecting" /\ FreeSock(s)
    /\ c_ws' = s /\ c_link' = "open"
    /\ c_state' = "AUTHENTICATING"
    /\ c_pc' = "auth_wait"
    /\ pc' = [pc EXCEPT ![s] = "await_auth"]
    /\ inbox' = [inbox EXCEPT ![s] =
                    <<Msg("AUTH", AuthId, c_token, ClientModels)>>]
    /\ outbox' = [outbox EXCEPT ![s] = <<>>]
    /\ s_cid' = [s_cid EXCEPT ![s] = NoId]
    /\ s_auth' = [s_auth EXCEPT ![s] = Sentinel]
    /\ ws_closed' = [ws_closed EXCEPT ![s] = FALSE]
    /\ reg' = [reg EXCEPT ![s] = NoReg]
    /\ UNCHANGED <<connectors, pending_connections, svars, rvars, xvars,
                   c_cred, nvars, c_token, c_attempt, c_running, c_connector_id, c_fails>>

\* connect(): websockets.connect raises (broker unreachable)
ClientConnectFailed ==
    /\ c_pc = "connecting" /\ c_fails < MaxFail
    /\ c_fails' = c_fails + 1
    /\ c_state' = "DISCONNECTED"
    /\ c_pc' = "reconnect_c"
    /\ UNCHANGED <<c_ws, c_link, c_cred, nvars, c_token, c_attempt, c_running,
                   c_connector_id, bvars_c>>

\* variant: AUTH_OK leaves the attempt counter as it is
ClientAuthReply_no_reset ==
    /\ c_pc = "auth_wait" /\ c_link = "open" /\ outbox[c_ws] # <<>>
    /\ LET r == Head(outbox[c_ws]) IN
       /\ outbox' = [outbox EXCEPT ![c_ws] = Tail(@)]
       /\ IF r.type = "AUTH_OK"
          THEN /\ c_state' = "CONNECTED"
               /\ c_pc' = "msgloop"
               /\ UNCHANGED <<c_attempt, c_connector_id, c_link, inbox>>
          ELSE IF r.type = "PENDING"
          THEN /\ c_state' = "PENDING" /\ c_connector_id' = r.tok
               /\ c_pc' = "msgloop"
               /\ UNCHANGED <<c_attempt, c_link, inbox>>
          ELSE /\ c_state' = "DISCONNECTED"
               /\ c_link' = client_close_link
               /\ inbox' = client_close_inbox
               /\ c_pc' = "reconnect_c"
               /\ UNCHANGED <<c_attempt, c_connector_id>>
    /\ UNCHANGED <<pc, s_cid, s_auth, ws_closed, reg, connectors,
                   pending_connections, svars, rvars, xvars, c_ws, c_cred, nvars, c_token,
                   c_running, c_fails>>

\* connect(): the reply to AUTH
ClientAuthReply ==
    /\ c_pc = "auth_wait" /\ c_link = "open" /\ outbox[c_ws] # <<>>
    /\ LET r == Head(outbox[c_ws]) IN
       /\ outbox' = [outbox EXCEPT ![c_ws] = Tail(@)]
       /\ IF r.type = "AUTH_OK"
          THEN /\ c_state' = "CONNECTED" /\ c_attempt' = 0
               /\ c_pc' = "msgloop"
               /\ UNCHANGED <<c_connector_id, c_link, inbox>>
          ELSE IF r.type = "PENDING"
          THEN /\ c_state' = "PENDING" /\ c_connector_id' = r.tok
               /\ c_pc' = "msgloop"
               /\ UNCHANGED <<c_attempt, c_link, inbox>>
          ELSE /\ c_state' = "DISCONNECTED"
               /\ c_link' = client_close_link
               /\ inbox' = client_close_inbox
               /\ c_pc' = "reconnect_c"
               /\ UNCHANGED <<c_attempt, c_connector_id>>
    /\ UNCHANGED <<pc, s_cid, s_auth, ws_closed, reg, connectors,
                   pending_connections, svars, rvars, xvars, c_ws, c_cred, nvars, c_token,
                   c_running, c_fails>>

\* connect(): recv raises because stop() closed the socket meanwhile
ClientAuthAborted ==
    /\ c_pc = "auth_wait" /\ c_link # "open"
    /\ c_state' = "DISCONNECTED"
    /\ c_pc' = "reconnect_c"
    /\ UNCHANGED <<c_ws, c_link, c_cred, nvars, c_token, c_attempt, c_running,
                   c_connector_id, c_fails, bvars_c>>

\* connect(): no reply within the authentication timeout
ClientAuthTimeout ==
    /\ c_pc = "auth_wait" /\ c_link = "open"
    /\ outbox[c_ws] = <<>> /\ ~ws_closed[c_ws]
    /\ c_fails < MaxFail
    /\ c_fails' = c_fails + 1
    /\ c_state' = "DISCONNECTED"
    /\ c_link' = client_close_link
    /\ inbox' = client_close_inbox
    /\ c_pc' = "reconnect_c"
    /\ UNCHANGED <<pc, s_cid, s_auth, ws_closed, outbox, reg, connectors,
                   pending_connections, svars, rvars, xvars, c_ws, c_cred, nvars, c_token,
                   c_attempt, c_running, c_connector_id>>

\* _handle_reconnect up to its sleep; "reconnect_c" is the call after a
\* failed connect(), "reconnect_x" the call in the except branches of run()
ClientHandleReconnect ==
    /\ c_pc \in {"reconnect_c", "reconnect_x"}
    /\ IF ~c_running
       THEN /\ c_pc' = "loop"
            /\ UNCHANGED <<c_state, c_attempt>>
       ELSE /\ c_state' = "RECONNECTING"
            /\ c_attempt' = c_attempt + 1
            /\ c_pc' = IF c_pc = "reconnect_c" THEN "sleep_c" ELSE "sleep_x"
    /\ UNCHANGED <<c_ws, c_link, c_cred, nvars, c_token, c_running, c_connector_id, c_fails,
                   bvars_c>>

\* the backoff sleep ends: after a failed connect() run() continues its
\* loop; an except branch first sets the state to DISCONNECTED
ClientWake ==
    /\ c_pc \in {"sleep_c", "sleep_x"}
    /\ c_state' = IF c_pc = "sleep_x" THEN "DISCONNECTED" ELSE c_state
    /\ c_pc' = "loop"
    /\ UNCHANGED <<c_ws, c_link, c_cred, nvars, c_token, c_attempt, c_running,
                   c_connector_id, c_fails, bvars_c>>

\* the ids of PING frames ("ping-" and eight hex digits)
PingIds == {AuthId, AuthId + 1}

\* variant: the PONG carries an id of its own
create_pong_message_own_id(id) == Msg("PONG", AuthId, NoKey, <<>>)

\* create_pong_message
create_pong_message(id) == Msg("PONG", id, NoKey, <<>>)

\* TunnelClient.send_message: RuntimeError without a socket or outside
\* CONNECTED and PENDING; a frame written to a socket that is no longer open
\* reaches nobody. The caller logs the exception.
client_send(m) ==
    IF /\ c_ws # NoSock /\ c_state \in {"CONNECTED", "PENDING"}
       /\ c_link = "open" /\ ~ws_closed[c_ws]
    THEN Send(inbox, c_ws, m)
    ELSE inbox

\* variant: REVOKED closes the socket but the token is kept
ClientHandleFrame_keep_token(f) ==
    IF f.type = "APPROVED"
    THEN /\ c_token' = f.tok
         /\ c_state' = "DISCONNECTED" /\ c_attempt' = 0
         /\ c_link' = client_close_link
         /\ inbox' = client_close_inbox
    ELSE IF f.type = "REVOKED"
    THEN /\ c_state' = "DISCONNECTED"
         /\ c_link' = client_close_link
         /\ inbox' = client_close_inbox
         /\ UNCHANGED <<c_token, c_attempt>>
    ELSE IF f.type = "PING"
    THEN /\ inbox' = client_send(create_pong_message(f.id))
         /\ UNCHANGED <<c_token, c_state, c_attempt, c_link>>
    ELSE UNCHANGED <<c_token, c_state, c_attempt, c_link, inbox>>

\* _handle_message of the client for frame f
ClientHandleFrame(f) ==
    IF f.type = "APPROVED"
    THEN /\ c_token' = f.tok
         /\ c_state' = "DISCONNECTED" /\ c_attempt' = 0
         /\ c_link' = client_close_link
         /\ inbox' = client_close_inbox
    ELSE IF f.type = "REVOKED"
    THEN /\ c_token' = NoKey
         /\ c_state' = "DISCONNECTED"
         /\ c_link' = client_close_link
         /\ inbox' = client_close_inbox
         /\ UNCHANGED c_attempt
    ELSE IF f.type = "PING"
    THEN /\ inbox' = client_send(create_pong_message(f.id))
         /\ UNCHANGED <<c_token, c_state, c_attempt, c_link>>
    ELSE UNCHANGED <<c_token, c_state, c_attempt, c_link, inbox>>

\* _message_loop: one step of async for over self._ws. No socket, or a
\* socket closed cleanly, ends the loop without an exception; a broken
\* socket raises ConnectionClosed into the except branch of run()
ClientRecv ==
    /\ c_pc = "msgloop"
    /\ IF c_link \in {"none", "closed"}
       THEN /\ c_pc' = "loop"
            /\ UNCHANGED <<c_state, c_ws, c_link, c_token, c_attempt, inbox,
                           outbox>>
       ELSE IF c_link = "broken"
       THEN /\ c_ws' = NoSock /\ c_link' = "none"
            /\ c_state' = "DISCONNECTED"
            /\ c_pc' = "reconnect_x"
            /\ UNCHANGED <<c_token, c_attempt, inbox, outbox>>
       ELSE IF outbox[c_ws] # <<>>
       THEN /\ outbox' = [outbox EXCEPT ![c_ws] = Tail(@)]
            /\ IF ~c_running
               THEN /\ c_pc' = "loop"
                    /\ UNCHANGED <<c_state, c_token, c_attempt, c_link, inbox>>
               ELSE /\ ClientHandleFrame(Head(outbox[c_ws]))
                    /\ c_pc' = "msgloop"
            /\ UNCHANGED c_ws
       ELSE /\ ws_closed[c_ws]
            /\ c_pc' = "loop"
            /\ UNCHANGED <<c_state, c_ws, c_link, c_token, c_attempt, inbox,
                           outbox>>
    /\ c_cred' = IF c_link = "open" /\ c_running /\ outbox[c_ws] # <<>>
                     /\ Head(outbox[c_ws]).type \in {"APPROVED", "REVOKED"}
                  THEN IF Head(outbox[c_ws]).type = "APPROVED"
                       THEN [ev |-> "approved", key |-> Head(outbox[c_ws]).tok]
                       ELSE [ev |-> "revoked", key |-> NoKey]
                  ELSE c_cred
    /\ UNCHANGED <<pc, s_cid, s_auth, ws_closed, reg, connectors,
                   pending_connections, svars, rvars, xvars, c_running,
                   c_connector_id, c_fails, nvars>>

\* the network breaks the connection of a connected or pending client: the
\* client's next receive raises, frames in flight are lost, the broker's
\* handler reads a close
NetDrop ==
    /\ c_link = "open" /\ c_state \in {"CONNECTED", "PENDING"}
    /\ c_fails < MaxFail
    /\ c_fails' = c_fails + 1
    /\ c_link' = "broken"
    /\ outbox' = [outbox EXCEPT ![c_ws] = <<>>]
    /\ inbox' = client_close_inbox
    /\ UNCHANGED <<pc, s_cid, s_auth, ws_closed, reg, connectors,
                   pending_connections, svars, rvars, xvars, c_state, c_pc,
                   c_ws, c_cred, nvars, c_token, c_attempt, c_running, c_connector_id>>

\* stop()
ClientStop ==
    /\ c_running
    /\ c_running' = FALSE
    /\ c_link' = client_close_link
    /\ inbox' = client_close_inbox
    /\ c_state' = "DISCONNECTED"
    /\ UNCHANGED <<pc, s_cid, s_auth, ws_closed, outbox, reg, connectors,
                   pending_connections, svars, rvars, xvars, c_pc, c_ws,
                   c_cred, nvars, c_token, c_attempt, c_connector_id, c_fails>>

\* TunnelServer.stop: every registered connector's websocket is closed
BrokerStop ==
    LET T == {connectors[c] : c \in ConnIds} \ {NoSock} IN
    /\ \E t \in T : ~ws_closed[t]
    /\ pc' = [s \in Socks |->
                IF s \in T /\ pc[s] = "accepted" THEN "closing" ELSE pc[s]]
    /\ ws_closed' = [s \in Socks |-> ws_closed[s] \/ s \in T]
    /\ inbox' = [s \in Socks |-> IF s \in T THEN <<>> ELSE inbox[s]]
    /\ UNCHANGED <<s_cid, s_auth, outbox, reg, connectors,
                   pending_connections, svars, rvars, xvars>>

\* ---- keepalive and ping frames ----------------------------------------
\* frames in flight on the client's socket, both directions together
MaxWire == 2
\* keepalive PINGs and PONGs counted
MaxPing == 2
Ka(pings, pongs) == [pings |-> pings, pongs |-> pongs]
NoKa == Ka(0, 0)
\* untouched by the liveness frames
ka_rest == <<sent, task, t_up, bo, disk, b_running, legacy, wr>>
\* the frames of the liveness exchange
PingFrames ==
    {Msg(t, i, NoKey, <<>>) : t \in {"PING", "PONG"}, i \in PingIds}

\* the server end of the client's socket writes a PING (the _ping_loop of an
\* accepted connector) or a PONG
ServerFrame(s, f) ==
    /\ pc[s] \in {"accepted", "pending"} /\ ~ws_closed[s]
    /\ Len(outbox[s]) + Len(inbox[s]) < MaxWire
    /\ f.type = "PONG" => ka.pongs < MaxPing
    /\ outbox' = Send(outbox, s, f)
    /\ ka' = IF f.type = "PONG" THEN Ka(ka.pings, ka.pongs + 1) ELSE ka
    /\ UNCHANGED <<pc, s_cid, s_auth, ws_closed, inbox, reg, connectors,
                   pending_connections, svars, rvars, xvars, cvars, ka_rest>>

\* _keepalive_loop: one turn after its sleep. The PING is written when
\* send_message accepts it; an exception ends the loop. No record is kept of
\* the PINGs sent or of the PONGs that came back.
ClientKeepalive(i) ==
    /\ c_running /\ c_state \in {"CONNECTED", "PENDING"}
    /\ c_pc \in {"loop", "msgloop"}
    /\ c_ws # NoSock /\ Len(outbox[c_ws]) + Len(inbox[c_ws]) < MaxWire
    /\ ka.pings < MaxPing
    /\ inbox' = client_send(Msg("PING", i, NoKey, <<>>))
    /\ ka' = IF inbox' # inbox THEN Ka(ka.pings + 1, ka.pongs) ELSE ka
    /\ UNCHANGED <<pc, s_cid, s_auth, ws_closed, outbox, reg, connectors,
                   pending_connections, svars, rvars, xvars, cvars, ka_rest>>

\* ---- writes to one connector socket ---------------------------------------
\* the tasks of the connector that write through TunnelClient.send_message:
\* a _handle_request task sending a RESPONSE or an ERROR, one streaming
\* STREAM_CHUNK / STREAM_END frames, the _keepalive_loop sending a PING and
\* _handle_message answering a PING with a PONG
ConnWriters == {"response", "stream", "keepalive", "pong"}
\* the tasks of the broker that write to the socket with send_str:
\* send_request / send_request_streaming of an HTTP handler, the _ping_loop,
\* notify_approval / notify_revoke of an admin handler
BrokerWriters == {"send_request", "ping_loop", "notify"}
\* conn[w] and brk[w] are the positions of the writers, lock the holder of
\* TunnelClient._send_lock
Writes(conn, lock, brk) == [conn |-> conn, lock |-> lock, brk |-> brk]
NoWrites ==
    Writes([w \in ConnWriters |-> "idle"], "free",
           [w \in BrokerWriters |-> "idle"])
wr_rest == <<sent, task, t_up, bo, disk, b_running, legacy, ka>>

\* a task calls send_message and reaches `async with self._send_lock`
SendMessageCall(w) ==
    /\ wr.conn[w] = "idle"
    /\ wr' = Writes([wr.conn EXCEPT ![w] = "queued"], wr.lock, wr.brk)
    /\ UNCHANGED <<bvars, svars, rvars, xvars, cvars, wr_rest>>

\* the lock is free: the task takes it and is inside `await self._ws.send`
SendMessageEnter(w) ==
    /\ wr.conn[w] = "queued" /\ wr.lock = "free"
    /\ wr' = Writes([wr.conn EXCEPT ![w] = "sending"], w, wr.brk)
    /\ UNCHANGED <<bvars, svars, rvars, xvars, cvars, wr_rest>>

\* the send returns or raises: `async with` releases the lock
SendMessageExit(w) ==
    /\ wr.conn[w] = "sending"
    /\ wr' = Writes([wr.conn EXCEPT ![w] = "idle"], "free", wr.brk)
    /\ UNCHANGED <<bvars, svars, rvars, xvars, cvars, wr_rest>>

\* a broker task is inside `await websocket.send_str(...)`: nothing is taken
\* or waited for before the call
BrokerSendEnter(w) ==
    /\ wr.brk[w] = "idle"
    /\ wr' = Writes(wr.conn, wr.lock, [wr.brk EXCEPT ![w] = "sending"])
    /\ UNCHANGED <<bvars, svars, rvars, xvars, cvars, wr_rest>>

\* send_str returns or raises
BrokerSendExit(w) ==
    /\ wr.brk[w] = "sending"
    /\ wr' = Writes(wr.conn, wr.lock, [wr.brk EXCEPT ![w] = "idle"])
    /\ UNCHANGED <<bvars, svars, rvars, xvars, cvars, wr_rest>>

\* ---- _handle_reconnect: the backoff delay --------------------------------
MaxAttempt == 13
\* random.random() is k / RandDen for a k in 0..RandDen-1
RandDen == 4
\* reconnect_base_delay and reconnect_max_delay, in seconds
BaseDelays == {1, 3}
MaxDelays == {2, 300, 5000}

Min(a, b) == IF a <= b THEN a ELSE b

\* variant: the delay is not capped at reconnect_max_delay
backoff_delay_uncapped(base, max, n) == base * (2 ^ Min(n - 1, 10))

\* the delay before jitter of reconnect attempt n
backoff_delay(base, max, n) == Min(base * (2 ^ Min(n - 1, 10)), max)

\* delay + delay * random.random() * 0.25 for random.random() = k / RandDen,
\* as a multiple of 1 / (4 * RandDen) seconds
slept_delay(delay, k) == delay * 4 * RandDen + delay * k

\* base, max: configuration; n: _reconnect_attempt; delay: the delay before
\* jitter; slept: the delay slept, in 1 / (4 * RandDen) seconds
Backoff(base, max, n, delay, slept) ==
    [base |-> base, max |-> max, n |-> n, delay |-> delay, slept |-> slept]

\* untouched by the backoff computation
kvars == <<bvars, svars, rvars, xvars, cvars, sent, task, t_up, disk,
           b_running, mvars>>

\* _handle_reconnect with random.random() = k / RandDen
BackoffReconnect(k) ==
    /\ bo.n < MaxAttempt
    /\ LET n == bo.n + 1
           d == backoff_delay(bo.base, bo.max, n) IN
       bo' = Backoff(bo.base, bo.max, n, d, slept_delay(d, k))
    /\ UNCHANGED kvars

\* connect() succeeds: _reconnect_attempt = 0
BackoffConnected ==
    /\ bo.n > 0
    /\ bo' = Backoff(bo.base, bo.max, 0, 0, 0)
    /\ UNCHANGED kvars

\* ========================================================================
\* Connector request handler (connector/main.py)
\* ========================================================================
MaxChunk == 2
NoTask == [pc |-> "idle", stream |-> FALSE, n |-> 0]
\* the status an LLM server answers with
LlmStatuses == {200, 404}
\* the ways an await on the LLM server ends other than with data
LlmFailures == {"timeout", "error"}
\* what an await on the LLM server ends with
LlmOut(kind, status) == [kind |-> kind, status |-> status]
LlmAnswers == {LlmOut("status", st) : st \in LlmStatuses}
              \cup {LlmOut(k, 0) : k \in LlmFailures}
LlmItems == {LlmOut(k, 0) : k \in {"chunk", "end"} \cup LlmFailures}

\* TunnelClient.send_message of frame f for request r: the frame is written
\* while the connection is up, else the call raises
send_message(r, f) == IF t_up THEN [sent EXCEPT ![r] = Append(@, f)] ELSE sent

\* create_error_message of the except branches: 504 for TimeoutError, 502 else
FailureError(r, how) == Msg("ERROR", r, IF how = "timeout" THEN 504 ELSE 502, <<>>)

\* untouched by the connector's request tasks
tvars == <<bvars, svars, rvars, xvars, cvars, bo, disk, b_running, mvars>>

\* _handle_message takes a REQUEST and creates the task; _handle_request runs
\* to its first await. body is "bad" when the payload does not validate:
\* the except branch of _handle_request sends ERROR 500
HandleRequest(r, body) ==
    /\ task[r].pc = "idle"
    /\ IF body = "bad"
       THEN /\ task' = [task EXCEPT ![r].pc = "done"]
            /\ sent' = send_message(r, Msg("ERROR", r, 500, <<>>))
       ELSE /\ task' = [task EXCEPT ![r].pc = IF body = "stream" THEN "head"
                                               ELSE "forward",
                                    ![r].stream = (body = "stream")]
            /\ UNCHANGED sent
    /\ UNCHANGED <<tvars, t_up>>

\* _handle_non_streaming_request: forward_request returns with a status or
\* raises; RESPONSE or ERROR is sent
NonStreaming(r, out) ==
    /\ task[r].pc = "forward"
    /\ task' = [task EXCEPT ![r].pc = "done"]
    /\ sent' = send_message(r, IF out.kind \in LlmFailures
                               THEN FailureError(r, out.kind)
                               ELSE Msg("RESPONSE", r, out.status, <<>>))
    /\ UNCHANGED <<tvars, t_up>>

\* _handle_streaming_request: the first item of the iteration, the status
\* line, or an exception instead of it
StreamingHead(r, out) ==
    /\ task[r].pc = "head"
    /\ IF out.kind \in LlmFailures
       THEN /\ task' = [task EXCEPT ![r].pc = "done"]
            /\ sent' = send_message(r, FailureError(r, out.kind))
       ELSE /\ task' = [task EXCEPT ![r].pc = IF out.status >= 400
                                               THEN "error_body"
                                               ELSE "chunks",
                                    ![r].n = out.status]
            /\ UNCHANGED sent
    /\ UNCHANGED <<tvars, t_up>>

\* variant: after the ERROR of a status >= 400 the handler goes on to the
\* end of the stream
StreamingErrorBody_no_return(r, out) ==
    /\ task[r].pc = "error_body"
    /\ task' = [task EXCEPT ![r].pc = "done"]
    /\ sent' = IF t_up
               THEN [sent EXCEPT ![r] = @ \o
                       <<IF out.kind \in LlmFailures
                         THEN FailureError(r, out.kind)
                         ELSE Msg("ERROR", r, task[r].n, <<>>),
                         Msg("STREAM_END", r, NoKey, <<>>)>>]
               ELSE sent
    /\ UNCHANGED <<tvars, t_up>>

\* _handle_streaming_request, status >= 400: the request is made again to
\* read the error body, ERROR with the status is sent and the handler returns;
\* an exception of the second request is answered by the except branches
StreamingErrorBody(r, out) ==
    /\ task[r].pc = "error_body"
    /\ task' = [task EXCEPT ![r].pc = "done"]
    /\ sent' = send_message(r, IF out.kind \in LlmFailures
                               THEN FailureError(r, out.kind)
                               ELSE Msg("ERROR", r, task[r].n, <<>>))
    /\ UNCHANGED <<tvars, t_up>>

\* _handle_streaming_request: the next item of the iteration is a chunk
\* (STREAM_CHUNK is sent), the end of the body (STREAM_END) or an exception
\* (ERROR); a send that raises is answered by the except branches, whose
\* send raises as well
StreamingNext(r, out) ==
    /\ task[r].pc = "chunks"
    /\ out.kind = "chunk" => Len(sent[r]) < MaxChunk
    /\ task' = [task EXCEPT ![r].pc = IF out.kind = "chunk" /\ t_up
                                      THEN "chunks" ELSE "done"]
    /\ sent' = send_message(r,
                  IF out.kind = "chunk" THEN Msg("STREAM_CHUNK", r, NoKey, <<>>)
                  ELSE IF out.kind = "end" THEN Msg("STREAM_END", r, NoKey, <<>>)
                  ELSE FailureError(r, out.kind))
    /\ UNCHANGED <<tvars, t_up>>

\* the connection to the broker goes down
ConnectorLinkDown ==
    /\ t_up
    /\ t_up' = FALSE
    /\ UNCHANGED <<tvars, sent, task>>

\* TunnelServer.stop as Broker.shutdown calls it: _running is cleared and
\* the websocket of every registration in _connectors is closed
TunnelStop ==
    LET T == {connectors[c] : c \in ConnIds} \ {NoSock} IN
    /\ b_running
    /\ b_running' = FALSE
    /\ pc' = [s \in Socks |->
                IF s \in T /\ pc[s] = "accepted" THEN "closing" ELSE pc[s]]
    /\ ws_closed' = [s \in Socks |-> ws_closed[s] \/ s \in T]
    /\ inbox' = [s \in Socks |-> IF s \in T THEN <<>> ELSE inbox[s]]
    /\ UNCHANGED <<s_cid, s_auth, outbox, reg, connectors,
                   pending_connections, svars, rvars, xvars, cvars,
                   sent, task, t_up, bo, disk, mvars>>

\* ========================================================================
\* Initial state and specifications
\* ========================================================================
NoEx == [st |-> "idle", kind |-> "none", reg |-> NoSock, status |-> 0,
         seen |-> <<>>, timed_out |-> FALSE]

InitBrokerConfigured(conns, cfg) ==
    /\ legacy = cfg
    /\ ka = NoKa
    /\ wr = NoWrites
    /\ pc = [s \in Socks |-> "free"]
    /\ s_cid = [s \in Socks |-> NoId]
    /\ s_auth = [s \in Socks |-> Sentinel]
    /\ ws_closed = [s \in Socks |-> FALSE]
    /\ inbox = [s \in Socks |-> <<>>]
    /\ outbox = [s \in Socks |-> <<>>]
    /\ reg = [s \in Socks |-> NoReg]
    /\ connectors = [c \in ConnIds |-> NoSock]
    /\ pending_connections = [c \in ConnIds |-> NoSock]
    /\ r_connectors = conns
    /\ routes = build_routes(conns)
    /\ r_before = {}
    /\ rb = RbIdle
    /\ look = NoLook
    /\ ex = [e \in ExIds |-> NoEx]
    /\ slot = [e \in ExIds |-> NoSlot]
    /\ sent = [e \in ExIds |-> <<>>]
    /\ task = [e \in ExIds |-> NoTask]
    /\ t_up = TRUE
    /\ disk = NoDisk
    /\ b_running = TRUE

InitBrokerWith(conns) == InitBrokerConfigured(conns, NoLegacy)

InitBroker == InitBrokerWith(<<>>)

InitStoreEmpty ==
    /\ records = [c \in ConnIds |-> NoRecord]
    /\ key_index = [k \in Keys |-> NoId]
    /\ next_cid = 1
    /\ next_key = 1
    /\ last_op = NoOp

\* TunnelClient.__init__ with broker_token tok (given or loaded from the
\* credentials file)
InitClientConfigured(tok, base, max) ==
    /\ bo = Backoff(base, max, 0, 0, 0)
    /\ c_state = "DISCONNECTED"
    /\ c_pc = "init"
    /\ c_ws = NoSock
    /\ c_link = "none"
    /\ c_token = tok
    /\ c_attempt = 0
    /\ c_running = FALSE
    /\ c_connector_id = NoId
    /\ c_fails = 0
    /\ c_cred = [ev |-> "none", key |-> tok]

\* the default reconnect_base_delay and reconnect_max_delay
InitClientWith(tok) == InitClientConfigured(tok, 1, 300)

InitClient == InitClientWith(NoKey)

\* ConnectorStore._load of a persisted document holding one APPROVED connector
InitStoreOne ==
    /\ records = [c \in ConnIds |->
                    IF c = 1
                    THEN [status |-> "APPROVED", api_key |-> 1,
                          models |-> <<"m1">>]
                    ELSE NoRecord]
    /\ key_index = [k \in Keys |-> IF k = 1 THEN 1 ELSE NoId]
    /\ next_cid = 2
    /\ next_key = 2
    /\ last_op = NoOp

Init == InitBroker /\ (InitStoreEmpty \/ InitStoreOne) /\ InitClient

\* admission: sockets, store, admin actions, registrations, router
NextAdmit ==
    \/ \E s \in Socks : \E f \in FirstFrames : PeerOpen(s, f) /\ UNCHANGED <<cvars, nvars>>
    \/ \E s \in Socks : AuthTimeout(s) /\ UNCHANGED <<cvars, nvars>>
    \/ \E s \in Socks : AuthBroken(s) /\ UNCHANGED <<cvars, nvars>>
    \/ \E s \in Socks : AuthNotAuth(s) /\ UNCHANGED <<cvars, nvars>>
    \/ \E s \in Socks : AuthApproved(s) /\ UNCHANGED <<cvars, nvars>>
    \/ \E s \in Socks : AuthRevoked(s) /\ UNCHANGED <<cvars, nvars>>
    \/ \E s \in Socks : AuthPending(s) /\ UNCHANGED <<cvars, nvars>>
    \/ \E s \in Socks : \E f \in CtlFrames \cup {Close} : PendingInput(s, f) /\ UNCHANGED <<cvars, nvars>>
    \/ \E s \in Socks : \E f \in CtlFrames \cup {Close} : AcceptedInput(s, f) /\ UNCHANGED <<cvars, nvars>>
    \/ \E s \in Socks : Cleanup(s) /\ UNCHANGED <<cvars, nvars>>
    \/ \E c \in ConnIds : AdminApprove(c) /\ UNCHANGED <<cvars, nvars>>
    \/ \E c \in ConnIds : AdminRevoke(c) /\ UNCHANGED <<cvars, nvars>>
    \/ \E c \in ConnIds : AdminDelete(c) /\ UNCHANGED <<cvars, nvars>>
    \/ Restart /\ UNCHANGED <<cvars, nvars>>

Spec == Init /\ [][NextAdmit]_vars

\* a store loaded from a persisted document in which every connector id is
\* APPROVED with its own key
InitStoreLoaded ==
    /\ records = [c \in ConnIds |->
                    [status |-> "APPROVED", api_key |-> c, models |-> <<"m1">>]]
    /\ key_index = [k \in Keys |-> k]
    /\ next_cid = MaxConn + 1
    /\ next_key = MaxKey + 1
    /\ last_op = NoOp

\* the models the connector holding key k advertises in the relay scenario
RelayModels(k) == IF k % 2 = 1 THEN <<"m1">> ELSE <<"m2">>

InitRelay == InitBroker /\ InitStoreLoaded /\ InitClient

\* request relay: approved connectors, exchanges of the HTTP edge
NextRelay ==
    \/ \E s \in 1..MaxRelaySock : \E k \in Keys : PeerOpen(s, Msg("AUTH", AuthId, k, RelayModels(k))) /\ UNCHANGED <<cvars, nvars>>
    \/ \E s \in Socks : AuthApproved(s) /\ UNCHANGED <<cvars, nvars>>
    \/ \E s \in Socks : \E f \in DataFrames : DataInput(s, f) /\ UNCHANGED <<cvars, nvars>>
    \/ \E s \in Socks : AcceptedInput(s, Close) /\ UNCHANGED <<cvars, nvars>>
    \/ \E s \in Socks : Cleanup(s) /\ UNCHANGED <<cvars, nvars>>
    \/ \E e \in ExIds : \E m \in Models : \E st \in BOOLEAN : HttpStart(e, m, st) /\ UNCHANGED <<cvars, nvars>>
    \/ \E e \in ExIds : HttpUnaryResume(e) /\ UNCHANGED <<cvars, nvars>>
    \/ \E e \in ExIds : HttpTimeout(e) /\ UNCHANGED <<cvars, nvars>>
    \/ \E e \in ExIds : HttpStreamGet(e) /\ UNCHANGED <<cvars, nvars>>
    \/ \E e \in ExIds : HttpStreamTimeout(e) /\ UNCHANGED <<cvars, nvars>>

SpecRelay == InitRelay /\ [][NextRelay]_vars

\* the router on its own: any sequence of its two callbacks
RouterModelLists ==
    {<<>>, <<"m1">>, <<"m2">>, <<"m1", "m2">>, <<"m2", "m1">>}
RouterKeys == {NoKey} \cup Keys

RouterRegistered(cid, models, key) ==
    /\ on_connector_registered(cid, models, key)
    /\ UNCHANGED <<bvars, svars, xvars, cvars, nvars>>

RouterDisconnected(cid) ==
    /\ on_connector_disconnected(cid)
    /\ UNCHANGED <<bvars, svars, xvars, cvars, nvars>>

InitRouter == InitBroker /\ InitStoreEmpty /\ InitClient

NextRouter ==
    \/ \E cid \in ConnIds : \E models \in RouterModelLists : \E key \in RouterKeys : RouterRegistered(cid, models, key)
    \/ \E cid \in ConnIds : RouterDisconnected(cid)

SpecRouter == InitRouter /\ [][NextRouter]_vars

\* ------------------------------------------------------------------------
\* the router with build_routes taken statement by statement, next to an HTTP
\* handler that looks a model up
\* variant: the lookup may run between any two statements of build_routes
loop_free_preemptive == TRUE

\* the event loop resumes another coroutine only when the running callback
\* has returned or awaits; build_routes and its callers do neither
loop_free == rb.pc = "idle"

\* on_connector_registered up to the call of build_routes
RbRegistered(cid, models, key) ==
    LET info == [connector_id |-> cid, models |-> models, llm_api_key |-> key]
    IN
    /\ rb.pc = "idle"
    /\ r_connectors' = dict_set(r_connectors, info)
    /\ r_before' = IF cid \in r_ids(r_connectors) THEN r_before
                   ELSE r_before \cup {<<d, cid>> : d \in r_ids(r_connectors)}
    /\ rb' = [pc |-> "clear", i |-> 1, j |-> 1, old |-> routes]
    /\ UNCHANGED <<routes, look, bvars, svars, xvars, cvars, nvars>>

\* on_connector_disconnected up to the call of build_routes
RbDisconnected(cid) ==
    /\ rb.pc = "idle" /\ cid \in r_ids(r_connectors)
    /\ r_connectors' = dict_pop(r_connectors, cid)
    /\ r_before' = {p \in r_before : p[1] # cid /\ p[2] # cid}
    /\ rb' = [pc |-> "clear", i |-> 1, j |-> 1, old |-> routes]
    /\ UNCHANGED <<routes, look, bvars, svars, xvars, cvars, nvars>>

\* build_routes: self._routes.clear()
RbClear ==
    /\ rb.pc = "clear"
    /\ routes' = EmptyRoutes
    /\ rb' = [rb EXCEPT !.pc = "fill"]
    /\ UNCHANGED <<r_connectors, r_before, look, bvars, svars, xvars, cvars, nvars>>

\* build_routes: one pass of the inner loop, or the end of a loop
RbFill ==
    /\ rb.pc = "fill"
    /\ IF rb.i > Len(r_connectors)
       THEN rb' = RbIdle /\ UNCHANGED routes
       ELSE IF rb.j > Len(r_connectors[rb.i].models)
       THEN rb' = [rb EXCEPT !.i = @ + 1, !.j = 1] /\ UNCHANGED routes
       ELSE LET info == r_connectors[rb.i]
                m == info.models[rb.j] IN
            /\ routes' = IF routes[m].connector_id = NoId
                         THEN [routes EXCEPT ![m] =
                                 [connector_id |-> info.connector_id,
                                  llm_api_key |-> info.llm_api_key]]
                         ELSE routes
            /\ rb' = [rb EXCEPT !.j = @ + 1]
    /\ UNCHANGED <<r_connectors, r_before, look, bvars, svars, xvars, cvars, nvars>>

\* _handle_chat_completions: the body read completes and the handler is
\* ready to run; this can happen while a callback is running
LookupReady(m) ==
    /\ look.st \in {"none", "done"}
    /\ look' = [NoLook EXCEPT !.st = "ready", !.model = m,
                              !.waited = rb.pc # "idle",
                              !.first = IF rb.pc # "idle" THEN rb.old[m]
                                        ELSE routes[m]]
    /\ UNCHANGED <<r_connectors, routes, r_before, rb, bvars, svars, xvars,
                   cvars, nvars>>

\* _handle_chat_completions resumes and calls get_route
LookupRun ==
    /\ look.st = "ready" /\ loop_free
    /\ look' = [look EXCEPT
                   !.st = "done",
                   !.ret = get_route(look.model),
                   !.before = IF rb.pc # "idle" THEN rb.old[look.model]
                              ELSE routes[look.model],
                   !.after = build_routes(r_connectors)[look.model]]
    /\ UNCHANGED <<r_connectors, routes, r_before, rb, bvars, svars, xvars,
                   cvars, nvars>>

\* the upstream key the broker is configured with for connector cid
RebuildKey(cid) == cid

NextRebuild ==
    \/ \E cid \in ConnIds : \E models \in ModelLists \cup {<<"m2">>} : RbRegistered(cid, models, RebuildKey(cid))
    \/ \E cid \in ConnIds : RbDisconnected(cid)
    \/ RbClear
    \/ RbFill
    \/ \E m \in Models : LookupReady(m)
    \/ LookupRun

SpecRebuild == InitRouter /\ [][NextRebuild]_vars

\* ------------------------------------------------------------------------
\* the HTTP edge with its checks, in test mode: the router starts with a
\* mock connector that has no socket (_register_mock_connectors)
MockId == MaxConn + 1
MockConnectors ==
    <<[connector_id |-> MockId, models |-> <<"m2">>, llm_api_key |-> NoKey]>>

InitEdge == InitBrokerWith(MockConnectors) /\ InitStoreLoaded /\ InitClient

NextEdge ==
    \/ \E s \in 1..MaxRelaySock : PeerOpen(s, Msg("AUTH", AuthId, 1, <<"m1">>)) /\ UNCHANGED <<cvars, nvars>>
    \/ \E s \in Socks : AuthApproved(s) /\ UNCHANGED <<cvars, nvars>>
    \/ \E s \in Socks : \E f \in DataFrames : DataInput(s, f) /\ UNCHANGED <<cvars, nvars>>
    \/ \E s \in Socks : AcceptedInput(s, Close) /\ UNCHANGED <<cvars, nvars>>
    \/ \E s \in Socks : Cleanup(s) /\ UNCHANGED <<cvars, nvars>>
    \/ \E e \in ExIds : \E hdr \in Headers : \E m \in Models \cup {NoModel} : \E st \in BOOLEAN : HttpHandle(e, hdr, m, st) /\ UNCHANGED <<cvars, nvars>>
    \/ \E e \in ExIds : HttpUnaryResume(e) /\ UNCHANGED <<cvars, nvars>>
    \/ \E e \in ExIds : HttpTimeout(e) /\ UNCHANGED <<cvars, nvars>>
    \/ \E e \in ExIds : HttpStreamGet(e) /\ UNCHANGED <<cvars, nvars>>
    \/ \E e \in ExIds : HttpStreamTimeout(e) /\ UNCHANGED <<cvars, nvars>>

SpecEdge == InitEdge /\ [][NextEdge]_vars

\* ------------------------------------------------------------------------
\* the relay with the socket's receive buffer: the connector writes frames
\* that wait in the buffer until the message loop takes them
MaxSent == 3
MaxInbox == 2

\* the frame types a connector writes for an exchange
ReplyTypes == {"STREAM_CHUNK", "STREAM_END", "RESPONSE"}

HasClose(q) == \E i \in 1..Len(q) : q[i].type = "CLOSE"

\* the connector behind socket s writes a frame of type t for the exchange e
\* whose REQUEST it received; tok is the content, here the frame's position
\* among the frames written for e
PeerSend(s, t, e) ==
    /\ pc[s] = "accepted" /\ ~ws_closed[s] /\ ~HasClose(inbox[s])
    /\ ex[e].st # "idle" /\ ex[e].reg = s
    /\ Len(sent[e]) < MaxSent /\ Len(inbox[s]) < MaxInbox
    /\ LET f == Msg(t, e, Len(sent[e]) + 1, <<>>) IN
       /\ inbox' = Send(inbox, s, f)
       /\ sent' = [sent EXCEPT ![e] = Append(@, f)]
    /\ UNCHANGED <<pc, s_cid, s_auth, ws_closed, outbox, reg, connectors,
                   pending_connections, svars, rvars, xvars, cvars, task,
                   t_up, bo, disk, b_running, mvars>>

\* the connector behind socket s closes the connection
PeerHangup(s) ==
    /\ pc[s] = "accepted" /\ ~ws_closed[s] /\ ~HasClose(inbox[s])
    /\ inbox' = Send(inbox, s, Close)
    /\ UNCHANGED <<pc, s_cid, s_auth, ws_closed, outbox, reg, connectors,
                   pending_connections, svars, rvars, xvars, cvars, nvars>>

NextOrder ==
    \/ PeerOpen(1, Msg("AUTH", AuthId, 1, <<"m1">>)) /\ UNCHANGED <<cvars, nvars>>
    \/ \E s \in Socks : AuthApproved(s) /\ UNCHANGED <<cvars, nvars>>
    \/ \E s \in Socks : \E t \in ReplyTypes : \E e \in ExIds : PeerSend(s, t, e)
    \/ \E s \in Socks : PeerHangup(s)
    \/ \E s \in Socks : AcceptedRecv(s) /\ UNCHANGED <<cvars, nvars>>
    \/ \E s \in Socks : Cleanup(s) /\ UNCHANGED <<cvars, nvars>>
    \/ \E e \in ExIds : \E st \in BOOLEAN : HttpStart(e, "m1", st) /\ UNCHANGED <<cvars, nvars>>
    \/ \E e \in ExIds : HttpUnaryResume(e) /\ UNCHANGED <<cvars, nvars>>
    \/ \E e \in ExIds : HttpTimeout(e) /\ UNCHANGED <<cvars, nvars>>
    \/ \E e \in ExIds : HttpStreamGet(e) /\ UNCHANGED <<cvars, nvars>>
    \/ \E e \in ExIds : HttpStreamTimeout(e) /\ UNCHANGED <<cvars, nvars>>

SpecOrder == InitRelay /\ [][NextOrder]_vars

\* ------------------------------------------------------------------------
\* the connector's request tasks on their own, with the LLM server's answers
InitConnector == InitBroker /\ InitStoreEmpty /\ InitClient

NextConnector ==
    \/ \E r \in ExIds : \E body \in {"bad", "unary", "stream"} : HandleRequest(r, body)
    \/ \E r \in ExIds : \E out \in LlmAnswers : NonStreaming(r, out)
    \/ \E r \in ExIds : \E out \in LlmAnswers : StreamingHead(r, out)
    \/ \E r \in ExIds : \E out \in LlmAnswers : StreamingErrorBody(r, out)
    \/ \E r \in ExIds : \E out \in LlmItems : StreamingNext(r, out)
    \/ ConnectorLinkDown

SpecConnector == InitConnector /\ [][NextConnector]_vars

\* ------------------------------------------------------------------------
\* the backoff of a client under each configuration
InitBackoff ==
    /\ InitBroker /\ InitStoreEmpty
    /\ \E base \in BaseDelays : \E max \in MaxDelays :
           InitClientConfigured(NoKey, base, max)

NextBackoff ==
    \/ \E k \in 0..(RandDen - 1) : BackoffReconnect(k)
    \/ BackoffConnected

SpecBackoff == InitBackoff /\ [][NextBackoff]_vars

\* ------------------------------------------------------------------------
\* admission with a shutdown of the broker: once the listener is down no
\* socket is opened, the handlers of the open sockets go on
NextStop ==
    \/ \E s \in Socks : \E f \in FirstFrames : b_running /\ PeerOpen(s, f) /\ UNCHANGED <<cvars, nvars>>
    \/ \E s \in Socks : AuthTimeout(s) /\ UNCHANGED <<cvars, nvars>>
    \/ \E s \in Socks : AuthBroken(s) /\ UNCHANGED <<cvars, nvars>>
    \/ \E s \in Socks : AuthNotAuth(s) /\ UNCHANGED <<cvars, nvars>>
    \/ \E s \in Socks : AuthApproved(s) /\ UNCHANGED <<cvars, nvars>>
    \/ \E s \in Socks : AuthPending(s) /\ UNCHANGED <<cvars, nvars>>
    \/ \E s \in Socks : PendingInput(s, Close) /\ UNCHANGED <<cvars, nvars>>
    \/ \E s \in Socks : AcceptedInput(s, Close) /\ UNCHANGED <<cvars, nvars>>
    \/ \E s \in Socks : Cleanup(s) /\ UNCHANGED <<cvars, nvars>>
    \/ TunnelStop

SpecStop == Init /\ [][NextStop]_vars

\* ------------------------------------------------------------------------
\* admission by a server without a connector store, under each configuration
\* of static tokens
InitLegacy ==
    /\ \E cfg \in LegacyConfigs : InitBrokerConfigured(<<>>, cfg)
    /\ InitStoreEmpty /\ InitClient

NextLegacy ==
    \/ \E s \in Socks : \E f \in LegacyFrames \cup (FirstFrames \ AuthFrames) : PeerOpen(s, f) /\ UNCHANGED <<cvars, nvars>>
    \/ \E s \in Socks : AuthTimeout(s) /\ UNCHANGED <<cvars, nvars>>
    \/ \E s \in Socks : AuthBroken(s) /\ UNCHANGED <<cvars, nvars>>
    \/ \E s \in Socks : AuthNotAuth(s) /\ UNCHANGED <<cvars, nvars>>
    \/ \E s \in Socks : LegacyFail(s) /\ UNCHANGED <<cvars, nvars>>
    \/ \E s \in Socks : LegacyOk(s) /\ UNCHANGED <<cvars, nvars>>
    \/ \E s \in Socks : AcceptedInput(s, Close) /\ UNCHANGED <<cvars, nvars>>
    \/ \E s \in Socks : Cleanup(s) /\ UNCHANGED <<cvars, nvars>>

SpecLegacy == InitLegacy /\ [][NextLegacy]_vars

\* ------------------------------------------------------------------------
\* one connector client against the broker with the liveness frames of both
\* sides, a stop of the broker and a stop of the client
InitPing ==
    /\ InitBroker
    /\ InitStoreEmpty \/ InitStoreOne
    /\ \E tok \in {NoKey, 1} : InitClientWith(tok)

NextPing ==
    \/ ClientRun
    \/ ClientLoop
    \/ \E s \in Socks : ClientConnected(s)
    \/ ClientAuthReply
    \/ ClientRecv
    \/ \E i \in PingIds : ClientKeepalive(i)
    \/ ClientStop
    \/ \E s \in Socks : \E f \in PingFrames : ServerFrame(s, f)
    \/ BrokerStop /\ UNCHANGED <<cvars, nvars>>
    \/ \E s \in Socks : AuthApproved(s) /\ UNCHANGED <<cvars, nvars>>
    \/ \E s \in Socks : AuthPending(s) /\ UNCHANGED <<cvars, nvars>>
    \/ \E s \in Socks : PendingRecv(s) /\ UNCHANGED <<cvars, nvars>>
    \/ \E s \in Socks : AcceptedRecv(s) /\ UNCHANGED <<cvars, nvars>>
    \/ \E s \in Socks : Cleanup(s) /\ UNCHANGED <<cvars, nvars>>

SpecPing == InitPing /\ [][NextPing]_vars

\* one accepted connector socket and the tasks that write to its two ends
InitSend == InitPing

NextSend ==
    \/ \E w \in ConnWriters : SendMessageCall(w)
    \/ \E w \in ConnWriters : SendMessageEnter(w)
    \/ \E w \in ConnWriters : SendMessageExit(w)
    \/ \E w \in BrokerWriters : BrokerSendEnter(w)
    \/ \E w \in BrokerWriters : BrokerSendExit(w)

SpecSend == InitSend /\ [][NextSend]_vars

\* ConnectorStore._load of a persisted document holding one REVOKED
\* connector: its api_key is still on the record and is indexed
InitStoreRevoked ==
    /\ records = [c \in ConnIds |->
                    IF c = 1
                    THEN [status |-> "REVOKED", api_key |-> 1,
                          models |-> <<"m1">>]
                    ELSE NoRecord]
    /\ key_index = [k \in Keys |-> IF k = 1 THEN 1 ELSE NoId]
    /\ next_cid = 2
    /\ next_key = 2
    /\ last_op = NoOp

InitLive ==
    /\ InitBroker
    /\ InitStoreEmpty \/ InitStoreOne \/ InitStoreRevoked
    /\ \E tok \in {NoKey, 1} : InitClientWith(tok)

\* the steps of the client's run() task
ClientStep ==
    \/ ClientRun
    \/ ClientLoop
    \/ \E s \in Socks : ClientConnected(s)
    \/ ClientAuthReply
    \/ ClientAuthAborted
    \/ ClientHandleReconnect
    \/ ClientWake
    \/ ClientRecv

\* the steps of the broker's handler of socket s
HandlerStep(s) ==
    /\ \/ AuthApproved(s)
       \/ AuthRevoked(s)
       \/ AuthPending(s)
       \/ PendingRecv(s)
       \/ AcceptedRecv(s)
       \/ Cleanup(s)
    /\ UNCHANGED <<cvars, nvars>>

\* one connector client against the broker, with admin actions, network
\* failures and stops
NextLive ==
    \/ ClientRun
    \/ ClientLoop
    \/ \E s \in Socks : ClientConnected(s)
    \/ ClientConnectFailed
    \/ ClientAuthReply
    \/ ClientAuthAborted
    \/ ClientAuthTimeout
    \/ ClientHandleReconnect
    \/ ClientWake
    \/ ClientRecv
    \/ NetDrop
    \/ ClientStop
    \/ BrokerStop /\ UNCHANGED <<cvars, nvars>>
    \/ \E s \in Socks : AuthApproved(s) /\ UNCHANGED <<cvars, nvars>>
    \/ \E s \in Socks : AuthRevoked(s) /\ UNCHANGED <<cvars, nvars>>
    \/ \E s \in Socks : AuthPending(s) /\ UNCHANGED <<cvars, nvars>>
    \/ \E s \in Socks : PendingRecv(s) /\ UNCHANGED <<cvars, nvars>>
    \/ \E s \in Socks : AcceptedRecv(s) /\ UNCHANGED <<cvars, nvars>>
    \/ \E s \in Socks : Cleanup(s) /\ UNCHANGED <<cvars, nvars>>
    \/ \E c \in ConnIds : AdminApprove(c) /\ UNCHANGED <<cvars, nvars>>
    \/ \E c \in ConnIds : AdminRevoke(c) /\ UNCHANGED <<cvars, nvars>>
    \/ \E c \in ConnIds : AdminDelete(c) /\ UNCHANGED <<cvars, nvars>>

\* the event loop runs a task that is ready: the client's run() task and
\* every socket handler of the broker make progress
SpecLive ==
    /\ InitLive
    /\ [][NextLive]_vars
    /\ WF_vars(ClientStep)
    /\ \A s \in Socks : WF_vars(HandlerStep(s))

\* ------------------------------------------------------------------------
\* the connector store on its own: any sequence of calls of its methods and
\* reloads from the persisted document
ovars == <<bvars, rvars, xvars, cvars, nvars>>

StoreCreatePending(models) ==
    /\ next_cid \in ConnIds
    /\ records' = create_pending(next_cid, models)
    /\ next_cid' = next_cid + 1
    /\ last_op' = StoreCall("create_pending", next_cid, NoKey, next_cid)
    /\ UNCHANGED <<key_index, next_key, ovars>>

StoreApprove(cid) ==
    /\ next_key \in Keys
    /\ records' = approve_records(cid, next_key)
    /\ key_index' = approve_index(cid, next_key)
    /\ next_key' = IF approve_ok(cid) THEN next_key + 1 ELSE next_key
    /\ last_op' = StoreCall("approve", cid, NoKey,
                            IF approve_ok(cid) THEN next_key ELSE NoKey)
    /\ UNCHANGED <<next_cid, ovars>>

StoreRevoke(cid) ==
    /\ records' = revoke_records(cid)
    /\ key_index' = revoke_index(cid)
    /\ last_op' = StoreCall("revoke", cid, records[cid].api_key,
                            IF revoke_ok(cid) THEN 1 ELSE 0)
    /\ UNCHANGED <<next_cid, next_key, ovars>>

StoreDelete(cid) ==
    /\ records' = delete_records(cid)
    /\ key_index' = delete_index(cid)
    /\ last_op' = StoreCall("delete", cid, records[cid].api_key,
                            IF delete_ok(cid) THEN 1 ELSE 0)
    /\ UNCHANGED <<next_cid, next_key, ovars>>

StoreUpdateModels(cid, models) ==
    /\ records' = update_models(records, cid, models)
    /\ last_op' = StoreCall("update_models", cid, NoKey,
                            IF records[cid].status # "absent" THEN 1 ELSE 0)
    /\ UNCHANGED <<key_index, next_cid, next_key, ovars>>

StoreValidate(k) ==
    /\ last_op' = StoreCall("validate_api_key", NoId, k, validate_api_key(k))
    /\ UNCHANGED <<records, key_index, next_cid, next_key, ovars>>

StoreGetByKey(k) ==
    /\ last_op' = StoreCall("get_by_api_key", NoId, k, get_by_api_key(k))
    /\ UNCHANGED <<records, key_index, next_cid, next_key, ovars>>

\* a new ConnectorStore over the same file: _load rebuilds both maps from
\* the document the last mutation saved
StoreReload ==
    /\ key_index' = load_index(records, MaxConn)
    /\ last_op' = StoreCall("load", NoId, NoKey, 0)
    /\ UNCHANGED <<records, next_cid, next_key, ovars>>

InitStore == InitBroker /\ InitStoreEmpty /\ InitClient

\* ------------------------------------------------------------------------
\* the connector store over a file whose writes can fail: every mutation with
\* its _save
pvars == <<bvars, rvars, xvars, cvars, sent, task, t_up, bo, b_running,
           mvars>>

PersistCreatePending(models, sv) ==
    /\ next_cid \in ConnIds
    /\ records' = create_pending(next_cid, models)
    /\ next_cid' = next_cid + 1
    /\ disk' = save_disk(sv, records')
    /\ last_op' = StoreCall("create_pending", next_cid, NoKey,
                            save_return(sv, next_cid))
    /\ UNCHANGED <<key_index, next_key, pvars>>

PersistApprove(cid, sv) ==
    /\ next_key \in Keys
    /\ records' = approve_records(cid, next_key)
    /\ key_index' = approve_index(cid, next_key)
    /\ next_key' = IF approve_ok(cid) THEN next_key + 1 ELSE next_key
    /\ disk' = IF approve_ok(cid) THEN save_disk(sv, records') ELSE disk
    /\ last_op' = StoreCall("approve", cid, NoKey,
                            IF approve_ok(cid) THEN save_return(sv, next_key)
                            ELSE NoKey)
    /\ UNCHANGED <<next_cid, pvars>>

PersistRevoke(cid, sv) ==
    /\ records' = revoke_records(cid)
    /\ key_index' = revoke_index(cid)
    /\ disk' = IF revoke_ok(cid) THEN save_disk(sv, records') ELSE disk
    /\ last_op' = StoreCall("revoke", cid, records[cid].api_key,
                            IF revoke_ok(cid) THEN save_return(sv, 1) ELSE 0)
    /\ UNCHANGED <<next_cid, next_key, pvars>>

PersistDelete(cid, sv) ==
    /\ records' = delete_records(cid)
    /\ key_index' = delete_index(cid)
    /\ disk' = IF delete_ok(cid) THEN save_disk(sv, records') ELSE disk
    /\ last_op' = StoreCall("delete", cid, records[cid].api_key,
                            IF delete_ok(cid) THEN save_return(sv, 1) ELSE 0)
    /\ UNCHANGED <<next_cid, next_key, pvars>>

PersistUpdateModels(cid, models, sv) ==
    /\ records' = update_models(records, cid, models)
    /\ disk' = IF records[cid].status # "absent" THEN save_disk(sv, records')
               ELSE disk
    /\ last_op' = StoreCall("update_models", cid, NoKey,
                            IF records[cid].status # "absent"
                            THEN save_return(sv, 1) ELSE 0)
    /\ UNCHANGED <<key_index, next_cid, next_key, pvars>>

\* update_last_connected / update_last_used of a connector the caller holds:
\* a timestamp is set and the store saved
PersistTouch(cid, sv) ==
    /\ records[cid].status # "absent"
    /\ disk' = save_disk(sv, records)
    /\ last_op' = StoreCall("update_last_used", cid, NoKey, save_return(sv, 0))
    /\ UNCHANGED <<records, key_index, next_cid, next_key, pvars>>

\* a new ConnectorStore over the file: _load
PersistLoad ==
    /\ records' = load_records
    /\ key_index' = load_index(load_records, MaxConn)
    /\ last_op' = StoreCall("load", NoId, NoKey, 0)
    /\ UNCHANGED <<next_cid, next_key, disk, pvars>>

NextPersist ==
    \/ \E sv \in SaveOutcomes : PersistCreatePending(<<"m1">>, sv)
    \/ \E cid \in ConnIds : \E sv \in SaveOutcomes : PersistApprove(cid, sv)
    \/ \E cid \in ConnIds : \E sv \in SaveOutcomes : PersistRevoke(cid, sv)
    \/ \E cid \in ConnIds : \E sv \in SaveOutcomes : PersistDelete(cid, sv)
    \/ \E cid \in ConnIds : \E sv \in SaveOutcomes : PersistUpdateModels(cid, <<"m1", "m2">>, sv)
    \/ \E cid \in ConnIds : \E sv \in SaveOutcomes : PersistTouch(cid, sv)
    \/ PersistLoad

SpecPersist == InitStore /\ [][NextPersist]_vars

NextStore ==
    \/ \E models \in ModelLists : StoreCreatePending(models)
    \/ \E cid \in ConnIds : StoreApprove(cid)
    \/ \E cid \in ConnIds : StoreRevoke(cid)
    \/ \E cid \in ConnIds : StoreDelete(cid)
    \/ \E cid \in ConnIds : \E models \in ModelLists : StoreUpdateModels(cid, models)
    \/ \E k \in Keys \cup {BogusKey} : StoreValidate(k)
    \/ \E k \in Keys \cup {BogusKey} : StoreGetByKey(k)
    \/ StoreReload

SpecStore == InitStore /\ [][NextStore]_vars

\* ========================================================================
\* Properties of the request relay (SpecRelay)
\* ========================================================================
\* the waiter of exchange e is still blocked: its future is not done, or its
\* consumer is reading a queue that holds no end-of-stream sentinel
Blocked(e) ==
    \/ ex[e].st = "waiting" /\ ~slot[e].done
    \/ /\ ex[e].st = "streaming"
       /\ \A i \in 1..Len(slot[e].q) : slot[e].q[i] # Sentinel

\* C1: once the handler of an ACCEPTED connector's socket has finished, no
\* send_request and no streaming consumer of that connector is still blocked
\* (futures got the disconnect error, queues the sentinel), and the router
\* drops a connector only when all of its waiters were failure-completed.
C1_DrainedOnClose ==
    \A e \in ExIds :
        Blocked(e) =>
            /\ pc[ex[e].reg] # "closed"
            /\ s_cid[ex[e].reg] \in r_ids(r_connectors)

\* the consumer loop of stream exchange e was entered
LoopRan(e) == ex[e].kind = "stream" /\ (ex[e].seen # <<>> \/ ex[e].timed_out)

IsTerminator(f) == f.type \in {"STREAM_END", "ERROR", "NONE"}

C3_SameId ==
    \A e \in ExIds :
        \A i \in 1..Len(ex[e].seen) :
            ex[e].seen[i] # Sentinel => ex[e].seen[i].id = e

\* two concurrent exchanges on one connector, each with an envelope returned
C3_Witness ==
    \E e, d \in ExIds :
        /\ e # d /\ ex[e].reg = ex[d].reg
        /\ ex[e].kind = "unary" /\ ex[e].seen # <<>>
        /\ ex[d].kind = "stream" /\ ex[d].seen # <<>>
        /\ ex[d].seen[1] # Sentinel

\* C5: a connector_id has at most one live registration; the registry entry
\* of a connector_id belongs to a socket whose handler is in ACCEPTED state
\* (or is finishing after its close), and every ACCEPTED socket owns the
\* registry entry of its connector_id.
C5_OneRegistrationPerSocket ==
    /\ \A c \in ConnIds :
           connectors[c] # NoSock =>
               /\ pc[connectors[c]] \in {"accepted", "closing"}
               /\ s_cid[connectors[c]] = c
    /\ \A s \in Socks : pc[s] = "accepted" => connectors[s_cid[s]] = s
    /\ \A s, t \in Socks :
           (pc[s] = "accepted" /\ pc[t] = "accepted" /\ s_cid[s] = s_cid[t])
               => s = t

\* ========================================================================
\* Properties of admission (Spec)
\* ========================================================================
\* the connector the key index holds for the token of frame f
IndexedConnector(f) == IF f.tok \in Keys THEN key_index[f.tok] ELSE NoId

LastOut(s) == outbox'[s][Len(outbox'[s])]

C4_Outcome(s) ==
    LET f == Head(inbox[s])
        c == IndexedConnector(f) IN
    /\ Len(outbox'[s]) = Len(outbox[s]) + 1
    /\ LastOut(s).id = f.id
    /\ IF c # NoId /\ records[c].status = "APPROVED"
       THEN /\ LastOut(s).type = "AUTH_OK" /\ LastOut(s).tok = c
            /\ pc'[s] = "accepted" /\ connectors'[c] = s
            /\ c \in r_ids(r_connectors')
            /\ pending_connections' = pending_connections
            /\ \A d \in ConnIds : records'[d].status = records[d].status
       ELSE IF c # NoId /\ records[c].status = "REVOKED"
       THEN /\ LastOut(s).type = "AUTH_FAIL"
            /\ pc'[s] = "closed" /\ ws_closed'[s]
            /\ UNCHANGED <<records, connectors, pending_connections, rvars>>
       ELSE \E n \in ConnIds :
            /\ n = next_cid /\ records[n].status = "absent"
            /\ records'[n].status = "PENDING" /\ records'[n].api_key = NoKey
            /\ \A d \in ConnIds \ {n} : records'[d] = records[d]
            /\ LastOut(s).type = "PENDING" /\ LastOut(s).tok = n
            /\ pc'[s] = "pending" /\ pending_connections'[n] = s
            /\ UNCHANGED <<connectors, rvars>>

\* C4: in store mode the outcome of an AUTH frame is decided by its token and
\* the store at that moment: indexed and APPROVED gives AUTH_OK and a
\* registration under the record's connector_id; indexed and REVOKED gives
\* AUTH_FAIL and close; anything else gives exactly one new PENDING record
\* with a fresh connector_id, a PENDING frame carrying it and a pending
\* admission the router does not know.
C4_AdmissionOutcome ==
    [][\A s \in Socks :
          (/\ pc[s] = "await_auth" /\ inbox[s] # <<>>
           /\ Head(inbox[s]).type = "AUTH"
           /\ pc'[s] # "await_auth") => C4_Outcome(s)]_vars

\* the same key was admitted while APPROVED, parked as a new pending
\* connector after its revocation, and refused once the reloaded index held
\* the REVOKED record
C4_Witness ==
    \E s, t, u \in Socks : \E k \in Keys :
        /\ s_auth[s].tok = k /\ s_auth[s].type = "AUTH"
        /\ outbox[s] # <<>> /\ outbox[s][1].type = "AUTH_OK"
        /\ s_auth[t].tok = k /\ s_auth[t].type = "AUTH"
        /\ outbox[t] # <<>> /\ outbox[t][1].type = "PENDING"
        /\ records[outbox[t][1].tok].status = "PENDING"
        /\ pc[u] = "closed" /\ s_cid[u] = NoId
        /\ outbox[u] # <<>> /\ outbox[u][1].type = "AUTH_FAIL"
        /\ key_index[k] # NoId /\ records[key_index[k]].status = "REVOKED"

\* ========================================================================
\* Properties of the router (SpecRouter)
\* ========================================================================
\* positions of the registered connectors that advertise model m
Advertisers(m) ==
    {i \in 1..Len(r_connectors) :
        \E j \in 1..Len(r_connectors[i].models) :
            r_connectors[i].models[j] = m}

\* C6: get_route(m) is the connector that has been registered longest among
\* the registered connectors advertising m, with that connector's upstream
\* key, and no route when none advertises m; so no route names a connector
\* that is not registered.
C6_FirstRegisteredWins ==
    \A m \in Models :
        IF Advertisers(m) = {} THEN get_route(m) = NoRoute
        ELSE \E i \in Advertisers(m) :
               /\ \A j \in Advertisers(m) \ {i} :
                      <<r_connectors[i].connector_id,
                        r_connectors[j].connector_id>> \in r_before
               /\ get_route(m) =
                      [connector_id |-> r_connectors[i].connector_id,
                       llm_api_key |-> r_connectors[i].llm_api_key]

\* connector 2 registered before connector 1 and shadows it for m1, which
\* both advertise
C6_Witness ==
    /\ Len(r_connectors) = 2
    /\ Advertisers("m1") = {1, 2}
    /\ <<2, 1>> \in r_before
    /\ r_connectors[1].models = <<"m2", "m1">>
    /\ get_route("m1").connector_id = 2
    /\ get_route("m1").llm_api_key = 2
    /\ r_connectors[2].llm_api_key = 1

\* ========================================================================
\* Properties of the connector client (SpecLive)
\* ========================================================================
Reconnecting == c_state = "CONNECTING" \/ ~c_running

\* the client's socket was closed by the broker or broken by the network
SocketClosed == c_ws # NoSock /\ (ws_closed[c_ws] \/ c_link = "broken")

\* C7: while the client runs, every failed connection attempt is eventually
\* followed by another connect attempt.
C7_RetryAfterFailedConnect ==
    (c_pc = "reconnect_c" /\ c_running) ~> Reconnecting

\* C8: a CONNECTED client whose socket is closed, cleanly or by an error,
\* leaves CONNECTED and connects again.
C8_ReconnectAfterClose ==
    (c_state = "CONNECTED" /\ c_running /\ SocketClosed) ~> Reconnecting

\* C9: a PENDING client whose socket the broker closes leaves PENDING and
\* connects again.
C9_PendingReconnectAfterClose ==
    (c_state = "PENDING" /\ c_running /\ c_ws # NoSock /\ ws_closed[c_ws])
        ~> Reconnecting

\* admission x of the client was approved with key k and the APPROVED frame
\* is on its way to the client
ApprovalSent(x, k) ==
    /\ c_running /\ c_state = "PENDING" /\ c_connector_id = x
    /\ c_link = "open" /\ outbox[c_ws] # <<>>
    /\ Head(outbox[c_ws]).type = "APPROVED" /\ Head(outbox[c_ws]).tok = k
    /\ records[x].status = "APPROVED" /\ records[x].api_key = k

\* the client's socket is ACCEPTED and registered under x with key k
AcceptedUnder(x, k) ==
    /\ c_token = k /\ c_ws # NoSock
    /\ connectors[x] = c_ws /\ pc[c_ws] = "accepted"
    /\ s_auth[c_ws].tok = k
    /\ x \in r_ids(r_connectors)
    /\ records[x].status = "APPROVED" /\ records[x].api_key = k

\* C10: once pending admission X is approved with key K, the connector
\* reconnects with K and is eventually ACCEPTED and registered under X while
\* record X is APPROVED with key K (unless X is revoked or deleted again, the
\* APPROVED frame is lost with the connection, or the client is stopped).
C10_ApprovalCompletes ==
    \A x \in ConnIds : \A k \in Keys :
        ApprovalSent(x, k) ~>
            \/ AcceptedUnder(x, k)
            \/ records[x].status # "APPROVED"
            \/ c_link = "broken"
            \/ ~c_running

\* connector x was revoked while the client is CONNECTED on a socket the
\* broker ACCEPTED under x: the socket is still ACCEPTED, or the REVOKED
\* frame is on its way to the client
RevokedWhileAccepted(x) ==
    /\ c_running /\ c_state = "CONNECTED" /\ c_link = "open"
    /\ c_ws # NoSock /\ s_cid[c_ws] = x
    /\ s_auth[c_ws].type = "AUTH" /\ s_auth[c_ws].tok = c_token
    /\ \/ pc[c_ws] = "accepted" /\ ~ws_closed[c_ws]
       \/ \E i \in 1..Len(outbox[c_ws]) : outbox[c_ws][i].type = "REVOKED"
    /\ records[x].status = "REVOKED"
    /\ get_by_api_key(records[x].api_key) = NoId

\* the client dropped its token and is parked as a pending admission other
\* than x
PendingAnew(x) ==
    /\ c_token = NoKey /\ c_state = "PENDING"
    /\ c_connector_id # NoId /\ c_connector_id # x

\* C11: once an ACCEPTED connector X is revoked, the connector receives
\* REVOKED, clears its token and its next AUTH, without a token, makes it a
\* new pending admission under another connector_id, while record X stays
\* REVOKED and out of the key index (unless record X is deleted, the
\* connection breaks, the client is stopped or no connector id is left).
C11_RevokedReadmitted ==
    \A x \in ConnIds :
        RevokedWhileAccepted(x) ~>
            \/ /\ PendingAnew(x)
               /\ records[x].status = "REVOKED"
               /\ get_by_api_key(records[x].api_key) = NoId
            \/ records[x].status # "REVOKED"
            \/ c_link = "broken"
            \/ ~c_running
            \/ next_cid \notin ConnIds

\* ========================================================================
\* Properties of the connector store
\* ========================================================================
\* C12: after any sequence of create_pending, approve, revoke and delete,
\* and after a reload of the store from its persisted document, no record
\* with status REVOKED is reachable through the key index.
C12_NoRevokedInIndex ==
    \A k \in Keys :
        get_by_api_key(k) # NoId =>
            records[get_by_api_key(k)].status # "REVOKED"

Present(c) == records[c].status # "absent"

\* C13 (as stated): a record has status PENDING if and only if its api_key
\* is absent.
C13_PendingIffNoKey ==
    \A c \in ConnIds :
        Present(c) =>
            (records[c].status = "PENDING" <=> records[c].api_key = NoKey)

\* C13 (amended): a PENDING record has no api_key and an APPROVED record has
\* one; a record without an api_key is PENDING or was revoked while PENDING.
C13_KeyByStatus ==
    \A c \in ConnIds :
        /\ records[c].status = "PENDING" => records[c].api_key = NoKey
        /\ records[c].status = "APPROVED" => records[c].api_key # NoKey
        /\ (Present(c) /\ records[c].api_key = NoKey) =>
               records[c].status \in {"PENDING", "REVOKED"}

\* revoke of a PENDING record returned true and left a REVOKED record
\* without a key, next to an APPROVED record holding one
C13_Witness ==
    /\ last_op.op = "revoke" /\ last_op.ret = 1 /\ last_op.key = NoKey
    /\ records[last_op.cid].status = "REVOKED"
    /\ records[last_op.cid].api_key = NoKey
    /\ \E d \in ConnIds : records[d].status = "APPROVED"

\* the step is the call op(c) of the store
Called(op, c) == last_op'.op = op /\ last_op'.cid = c

\* C14: approve(c) succeeds only on a PENDING record; for an unknown,
\* APPROVED or REVOKED record it returns None and leaves the record and the
\* key index as they are; no step moves a record from APPROVED or REVOKED
\* back to an earlier status.
C14_ApproveOnlyPending ==
    [][\A c \in ConnIds :
          /\ Called("approve", c) =>
                IF records[c].status = "PENDING"
                THEN /\ last_op'.ret # NoKey
                     /\ records'[c].status = "APPROVED"
                     /\ records'[c].api_key = last_op'.ret
                     /\ key_index'[last_op'.ret] = c
                ELSE /\ last_op'.ret = NoKey
                     /\ records' = records /\ key_index' = key_index
          /\ records[c].status = "APPROVED" =>
                records'[c].status \in {"APPROVED", "REVOKED", "absent"}
          /\ records[c].status = "REVOKED" =>
                records'[c].status \in {"REVOKED", "absent"}]_vars

\* approve of a record that was approved and then revoked returned None
C14_Witness ==
    /\ last_op.op = "approve" /\ last_op.ret = NoKey
    /\ records[last_op.cid].status = "REVOKED"
    /\ records[last_op.cid].api_key # NoKey

\* C15: revoke(c) returns true exactly when the record exists with status
\* APPROVED or PENDING; it then takes the record's key out of the key index
\* and sets status REVOKED while the record stays; it returns false for an
\* unknown connector_id.
C15_RevokeResult ==
    [][\A c \in ConnIds :
          Called("revoke", c) =>
              /\ last_op'.ret = 1 <=>
                     records[c].status \in {"APPROVED", "PENDING"}
              /\ last_op'.ret = 1 =>
                     /\ records'[c].status = "REVOKED"
                     /\ \A k \in Keys : get_by_api_key(k)' # c
              /\ ~Present(c) => last_op'.ret = 0 /\ records' = records]_vars

\* C16: validate(k) returns a record exactly when that record is APPROVED
\* and holds k; validate of the key approve just returned gives the approved
\* record, and after revoke or delete of a record validate of its key gives
\* None.
C16_ValidateApproved ==
    /\ \A k \in Keys \cup {BogusKey} :
           LET c == validate_api_key(k) IN
           /\ c # NoId =>
                  records[c].status = "APPROVED" /\ records[c].api_key = k
           /\ \A d \in ConnIds :
                  (records[d].status = "APPROVED" /\ records[d].api_key = k)
                      => c = d
    /\ (last_op.op = "approve" /\ last_op.ret # NoKey) =>
           validate_api_key(last_op.ret) = last_op.cid
    /\ (last_op.op \in {"revoke", "delete"} /\ last_op.ret = 1) =>
           /\ validate_api_key(last_op.key) = NoId
           /\ \A k \in Keys : validate_api_key(k) # last_op.cid
    /\ last_op.op = "validate_api_key" =>
           last_op.ret = validate_api_key(last_op.key)

\* validate returned None for the key of a record that was approved, then
\* revoked, and is in the key index again after a reload
C16_Witness ==
    /\ last_op.op = "validate_api_key" /\ last_op.ret = NoId
    /\ last_op.key \in Keys /\ get_by_api_key(last_op.key) # NoId
    /\ records[get_by_api_key(last_op.key)].status = "REVOKED"
    /\ \E k \in Keys : validate_api_key(k) # NoId

\* C17: the key index and the primary map agree: each key in the index maps
\* to a record that is in the primary map and holds that key, every APPROVED
\* record is found in the index under its api_key, and no two APPROVED
\* records share a key.
C17_IndexAgrees ==
    /\ \A k \in Keys :
           get_by_api_key(k) # NoId =>
               /\ Present(get_by_api_key(k))
               /\ records[get_by_api_key(k)].api_key = k
    /\ \A c \in ConnIds :
           records[c].status = "APPROVED" =>
               /\ records[c].api_key # NoKey
               /\ get_by_api_key(records[c].api_key) = c
    /\ \A c, d \in ConnIds :
           (c # d /\ records[c].status = "APPROVED"
                  /\ records[d].status = "APPROVED")
               => records[c].api_key # records[d].api_key

\* an APPROVED record was deleted and its key left the index, while another
\* APPROVED record is still indexed
C17_Witness ==
    /\ last_op.op = "delete" /\ last_op.ret = 1 /\ last_op.key # NoKey
    /\ ~Present(last_op.cid)
    /\ get_by_api_key(last_op.key) = NoId
    /\ \E c \in ConnIds :
           records[c].status = "APPROVED"
               /\ get_by_api_key(records[c].api_key) = c

C19_AuthCarriesCredential ==
    [][/\ (c_pc = "connecting" /\ c_pc' = "auth_wait") =>
              /\ Head(inbox'[c_ws']).type = "AUTH"
              /\ Head(inbox'[c_ws']).tok = c_cred.key
       /\ (c_cred' # c_cred /\ c_cred'.ev = "approved") =>
              /\ c_token' = c_cred'.key
              /\ c_attempt' = 0 /\ c_state' = "DISCONNECTED"
       /\ (c_cred' # c_cred /\ c_cred'.ev = "revoked") =>
              c_token' = NoKey]_vars

\* the client was admitted with a key, took REVOKED, and its AUTH in flight
\* carries no token
C19_Witness ==
    /\ c_pc = "auth_wait" /\ c_ws # NoSock /\ inbox[c_ws] # <<>>
    /\ Head(inbox[c_ws]).type = "AUTH"
    /\ c_cred.ev = "revoked"
    /\ Head(inbox[c_ws]).tok = NoKey
    /\ \E x \in ConnIds :
           records[x].status = "REVOKED" /\ records[x].api_key # NoKey

\* ========================================================================
\* Properties of the HTTP edge (SpecEdge)
\* ========================================================================
\* the status the first failing check gives, 0 when every check passes
FirstFailure(hdr, m) ==
    IF hdr \notin UserApiKeys THEN 401
    ELSE IF m = NoModel THEN 400
    ELSE IF routes[m] = NoRoute THEN 404
    ELSE IF routes[m].connector_id \notin ConnIds
            \/ connectors[routes[m].connector_id] = NoSock THEN 503
    ELSE 0

\* no REQUEST frame was written and no pending entry created in this step
NothingSent == outbox' = outbox /\ reg' = reg /\ slot' = slot

\* C20: POST /v1/chat/completions applies user authentication (401), model
\* extraction (400), route lookup (404) and the live-registration check
\* (503) in this order; the first failing check decides the response, and
\* then no REQUEST frame is sent and no pending entry is created.
C20_ChecksInOrder ==
    [][\A e \in ExIds : \A hdr \in Headers : \A m \in Models \cup {NoModel} :
          \A st \in BOOLEAN :
              HttpHandle(e, hdr, m, st) =>
                  IF FirstFailure(hdr, m) # 0
                  THEN /\ ex'[e].st = "done"
                       /\ ex'[e].status = FirstFailure(hdr, m)
                       /\ NothingSent
                  ELSE ex'[e].status \notin {401, 400, 404, 503}]_vars

\* one request was refused for its user key and another found a route whose
\* connector has no live registration, while a connector is registered
C20_Witness ==
    \E e, d \in ExIds :
        /\ ex[e].st = "done" /\ ex[e].status = 503
        /\ ex[d].st = "done" /\ ex[d].status = 401
        /\ \E c \in ConnIds : connectors[c] # NoSock

\* ========================================================================
\* Properties of the non-streaming response (SpecRelay)
\* ========================================================================
\* the non-streaming exchange e was written to a connector and is answered
Answered(e) ==
    /\ ex[e].st = "done" /\ ex[e].kind = "unary"
    /\ slot[e].kind = "future" /\ slot[e].done

\* C21: a non-streaming request that was dispatched is answered with the
\* status of the RESPONSE or the payload.status of the ERROR that completed
\* it, with 504 when send_request timed out and with 502 when the cleanup
\* of the disconnected connector failed the waiting future.
C21_StatusByCompletion ==
    \A e \in ExIds : Answered(e) =>
        /\ slot[e].exc = "cancelled" <=> ex[e].timed_out
        /\ slot[e].exc = "cancelled" => ex[e].status = 504
        /\ slot[e].exc = "disconnect" => ex[e].status = 502
        /\ slot[e].exc = "none" =>
              /\ slot[e].val.type \in {"RESPONSE", "ERROR"}
              /\ slot[e].val.id = e
              /\ ex[e].status = slot[e].val.tok
              /\ slot[e].val.type = "RESPONSE" => ex[e].status = OkStatus
              /\ slot[e].val.type = "ERROR" => ex[e].status = ErrStatus

\* one request was failed by the disconnect of its connector, another was
\* completed by an ERROR frame
C21_Witness ==
    \E e, d \in ExIds :
        /\ Answered(e) /\ slot[e].exc = "disconnect" /\ ex[e].status = 502
        /\ Answered(d) /\ slot[d].exc = "none" /\ slot[d].val.type = "ERROR"
        /\ ex[d].status = ErrStatus

\* ========================================================================
\* Properties of the order of frames (SpecOrder)
\* ========================================================================
IsFrame(x) == x.type # "NONE"
IsChunk(x) == x.type = "STREAM_CHUNK"
\* the frames of exchange e the HTTP edge took or will take from its queue
Delivered(e) == SelectSeq(ex[e].seen \o slot[e].q, IsFrame)
IsPrefix(a, b) == Len(a) <= Len(b) /\ SubSeq(b, 1, Len(a)) = a
\* the chunks the handler wrote to the user, one per STREAM_CHUNK it took
Written(e) == SelectSeq(ex[e].seen, IsChunk)

\* C22: the HTTP edge consumes the frames of an exchange in the order its
\* connector sent them, however the frames of other exchanges on the same
\* socket are interleaved; what is written to the user for a stream is the
\* chunks in send order.
C22_FramesInSendOrder ==
    \A e \in ExIds :
        /\ ex[e].kind = "stream" =>
              /\ IsPrefix(Delivered(e), sent[e])
              /\ Written(e) = SelectSeq(
                     SubSeq(sent[e], 1, Len(SelectSeq(ex[e].seen, IsFrame))),
                     IsChunk)
        /\ (ex[e].kind = "unary" /\ ex[e].seen # <<>>) =>
              \E i \in 1..Len(sent[e]) :
                  /\ ex[e].seen = <<sent[e][i]>>
                  /\ \A j \in 1..(i - 1) :
                        sent[e][j].type \notin {"RESPONSE", "ERROR"}

\* a stream took two chunks and its end while frames of the other exchange
\* went over the same socket in between
C22_Witness ==
    \E e, d \in ExIds :
        /\ e # d /\ ex[e].kind = "stream" /\ ex[e].st = "done"
        /\ Len(Written(e)) = 2 /\ Len(sent[e]) = 3
        /\ ex[d].reg = ex[e].reg /\ sent[d] # <<>>
        /\ ex[d].seen # <<>>

\* ========================================================================
\* Properties of the connector's request handler (SpecConnector)
\* ========================================================================
IsTerminal(f) == f.type \in {"RESPONSE", "ERROR", "STREAM_END"}
TerminalAt(r) == {i \in 1..Len(sent[r]) : IsTerminal(sent[r][i])}

\* C23: while the connection stays up, the connector sends for every REQUEST
\* it handles exactly one terminal frame with the request's id (RESPONSE or
\* ERROR when non-streaming, STREAM_END or ERROR when streaming), sends
\* STREAM_CHUNK frames for it only before that frame, and nothing after it.
C23_OneTerminalFrame ==
    \A r \in ExIds :
        /\ \A i \in 1..Len(sent[r]) : sent[r][i].id = r
        /\ TerminalAt(r) \subseteq {Len(sent[r])}
        /\ TerminalAt(r) # {} => task[r].pc = "done"
        /\ (task[r].pc = "done" /\ t_up) => TerminalAt(r) = {Len(sent[r])}
        /\ \A i \in 1..Len(sent[r]) :
              /\ sent[r][i].type = "STREAM_CHUNK" => task[r].stream
              /\ sent[r][i].type = "STREAM_END" => task[r].stream
              /\ sent[r][i].type = "RESPONSE" => ~task[r].stream

\* a stream ended with STREAM_END after its chunks and another with the ERROR
\* of an LLM status >= 400, the connection being up
C23_Witness ==
    \E r, q \in ExIds :
        /\ t_up /\ task[r].pc = "done" /\ task[q].pc = "done"
        /\ Len(sent[r]) = MaxChunk + 1
        /\ sent[r][MaxChunk + 1].type = "STREAM_END"
        /\ task[q].stream /\ sent[q] = <<Msg("ERROR", q, 404, <<>>)>>

\* ========================================================================
\* Properties of frames that cannot be handled (Spec)
\* ========================================================================
\* a frame that does not decode, and one of a type the broker does not expect
BadFrames == {Msg("GARBAGE", NoId, NoKey, <<>>), Msg("PING", AuthId, NoKey, <<>>)}

\* C24: a frame that fails to decode or has an unexpected type, received on
\* a socket after authentication, is dropped: the socket stays open and the
\* registrations, pending exchanges and pending admissions stay as they are.
C24_BadFrameDropped ==
    [][\A s \in Socks : \A f \in BadFrames :
          (PendingInput(s, f) \/ AcceptedInput(s, f)) =>
              /\ pc' = pc /\ ws_closed' = ws_closed
              /\ connectors' = connectors /\ reg' = reg
              /\ pending_connections' = pending_connections
              /\ slot' = slot]_vars

\* ========================================================================
\* Properties of the reconnect attempt counter (SpecLive)
\* ========================================================================
\* C25: the attempt counter is 0 whenever the client enters CONNECTED; every
\* reconnect adds exactly 1 to it, and nothing but entering CONNECTED or an
\* APPROVED frame changes it otherwise.
C25_AttemptCounter ==
    [][/\ (c_state # "CONNECTED" /\ c_state' = "CONNECTED") => c_attempt' = 0
       /\ (c_state # "RECONNECTING" /\ c_state' = "RECONNECTING") =>
              c_attempt' = c_attempt + 1
       /\ c_attempt' # c_attempt =>
              \/ c_attempt' = c_attempt + 1
                 /\ c_pc \in {"reconnect_c", "reconnect_x"}
              \/ c_attempt' = 0 /\ c_state' = "CONNECTED"
              \/ c_attempt' = 0 /\ c_cred' # c_cred /\ c_cred'.ev = "approved"]_vars

\* two failures in a row, a lost connection and a refused connect, with no
\* CONNECTED in between
C25_Witness ==
    c_attempt = 2 /\ c_state = "RECONNECTING" /\ c_fails = 2

\* ========================================================================
\* Properties of the reconnect delay (SpecBackoff)
\* ========================================================================
\* C26: for attempt n >= 1 the delay before jitter is
\* min(base * 2^min(n-1, 10), max_delay); it does not decrease from one
\* failure to the next, never exceeds max_delay, and the delay slept is at
\* most 1.25 times the delay before jitter.
C26_BackoffDelay ==
    [][bo'.n >= 1 =>
          /\ bo'.n <= 11 => bo'.delay = Min(bo'.base * (2 ^ (bo'.n - 1)), bo'.max)
          /\ bo'.n > 11 => bo'.delay = Min(bo'.base * 1024, bo'.max)
          /\ bo'.delay <= bo'.max
          /\ bo.n >= 1 => bo'.delay >= bo.delay
          /\ bo'.slept >= bo'.delay * 4 * RandDen
          /\ bo'.slept * 4 <= bo'.delay * 4 * RandDen * 5]_vars

\* the exponent has reached its cap below max_delay, with jitter slept
C26_Witness ==
    /\ bo.n = MaxAttempt /\ bo.delay = 3 * 1024 /\ bo.delay < bo.max
    /\ bo.slept > bo.delay * 4 * RandDen

\* ========================================================================
\* Properties of persistence (SpecPersist)
\* ========================================================================
\* the store method called last returned normally and changed the store
Mutated(op) == last_op.op = op /\ last_op.ret # 0

\* C27: a mutation whose save fails still takes effect in memory and returns
\* its normal result, and after a save that succeeds the persisted document
\* equals the records in memory.
C27_SaveFailureTolerated ==
    /\ last_op.ret # Raised
    /\ disk.last = "ok" => (disk.state = "ok" /\ disk.doc = records)
    /\ last_op.op = "create_pending" =>
          records[last_op.ret].status = "PENDING"
    /\ Mutated("approve") =>
          /\ records[last_op.cid].status = "APPROVED"
          /\ records[last_op.cid].api_key = last_op.ret
          /\ key_index[last_op.ret] = last_op.cid
    /\ Mutated("revoke") =>
          /\ records[last_op.cid].status = "REVOKED"
          /\ last_op.key # NoKey => key_index[last_op.key] = NoId
    /\ Mutated("delete") => records[last_op.cid] = NoRecord
    /\ Mutated("update_models") => records[last_op.cid].models = <<"m1", "m2">>

\* an approval whose save failed is in memory only, the file still holding
\* the document of an earlier save
C27_Witness ==
    /\ Mutated("approve") /\ disk.last = "fail_open"
    /\ disk.state = "ok" /\ disk.doc # records
    /\ disk.doc[last_op.cid].status = "PENDING"

\* ========================================================================
\* Properties of the shutdown (SpecStop)
\* ========================================================================
\* C28: on shutdown no new socket is accepted, and every connector socket,
\* ACCEPTED and pending-admission alike, is closed.
C28_StopClosesAll ==
    [][/\ ~b_running =>
             \A s \in Socks : pc[s] \in {"free", "closed"} => pc'[s] = pc[s]
       /\ TunnelStop =>
             \A s \in Socks : pc[s] \in {"accepted", "pending"} => ws_closed'[s]]_vars

\* ------------------------------------------------------------------------
\* C29: with a non-empty static token set a socket becomes accepted only when
\* the token of its AUTH frame is in the set, and then it gets AUTH_OK with a
\* connector id no socket had before, registered with the upstream key
\* configured for that token; an AUTH frame with another token or none gets
\* AUTH_FAIL, the socket is closed and no registration changes.
C29_LegacyAdmission ==
    [][legacy.tokens # {} =>
         \A s \in Socks :
            /\ (pc[s] # "accepted" /\ pc'[s] = "accepted") =>
                  /\ Head(inbox[s]).type = "AUTH"
                  /\ Head(inbox[s]).tok \in legacy.tokens
                  /\ s_cid'[s] \in ConnIds
                  /\ s_cid'[s] >= next_cid /\ next_cid' > s_cid'[s]
                  /\ \A t \in Socks : s_cid[t] # s_cid'[s]
                  /\ connectors[s_cid'[s]] = NoSock
                  /\ connectors'[s_cid'[s]] = s
                  /\ reg'[s].llm_api_key = configs_get(Head(inbox[s]).tok)
                  /\ outbox'[s] = Append(outbox[s],
                         Msg("AUTH_OK", Head(inbox[s]).id, s_cid'[s], <<>>))
            /\ (/\ pc[s] = "await_auth" /\ inbox[s] # <<>>
                /\ Head(inbox[s]).type = "AUTH"
                /\ Head(inbox[s]).tok \notin legacy.tokens
                /\ pc'[s] # pc[s]) =>
                  /\ pc'[s] = "closed" /\ ws_closed'[s]
                  /\ outbox'[s] = Append(outbox[s],
                         Msg("AUTH_FAIL", Head(inbox[s]).id, NoKey, <<>>))
                  /\ connectors' = connectors /\ reg' = reg
                  /\ pending_connections' = pending_connections
                  /\ r_connectors' = r_connectors]_vars

\* one socket was rejected with AUTH_FAIL for a token outside the set, two
\* were accepted: one with the configured upstream key, one without a key
C29_Witness ==
    /\ legacy.tokens # {}
    /\ \E s, t, u \in Socks :
          /\ pc[s] = "closed" /\ outbox[s] # <<>>
          /\ outbox[s][1].type = "AUTH_FAIL"
          /\ pc[t] = "accepted" /\ s_auth[t].tok = 1
          /\ reg[t].llm_api_key = 2
          /\ pc[u] = "accepted" /\ s_auth[u].tok = 2
          /\ reg[u].llm_api_key = NoKey
          /\ s_cid[t] # s_cid[u]

\* ------------------------------------------------------------------------
\* C30: a client in CONNECTED or PENDING that takes a PING from its open
\* socket writes exactly one frame, a PONG with the id of the PING; taking a
\* PONG writes nothing; neither changes the client's state or closes the
\* socket, nor does a turn of the keepalive loop, whatever PONGs came back;
\* the state changes and the socket closes only by a stop of either side.
C30_PingPong ==
    [][/\ (/\ ClientRecv /\ c_running /\ c_link = "open"
           /\ c_state \in {"CONNECTED", "PENDING"}
           /\ ~ws_closed[c_ws] /\ outbox[c_ws] # <<>>
           /\ Head(outbox[c_ws]).type \in {"PING", "PONG"}) =>
              /\ Head(outbox[c_ws]).type = "PING" =>
                    inbox' = [inbox EXCEPT ![c_ws] = Append(@,
                                 Msg("PONG", Head(outbox[c_ws]).id, NoKey, <<>>))]
              /\ Head(outbox[c_ws]).type = "PONG" => inbox' = inbox
              /\ c_state' = c_state /\ c_link' = c_link /\ c_ws' = c_ws
              /\ ws_closed' = ws_closed /\ c_pc' = "msgloop"
       /\ (/\ c_state \in {"CONNECTED", "PENDING"} /\ c_link = "open"
           /\ ~ws_closed[c_ws]
           /\ \/ c_state' # c_state \/ c_link' # c_link
              \/ ws_closed'[c_ws]) =>
              \/ ClientStop
              \/ BrokerStop /\ UNCHANGED <<cvars, nvars>>]_vars

\* a pending client wrote two keepalive PINGs, no PONG was ever written to
\* it, the broker has taken both PINGs, and the client has answered a PING
\* with a PONG of the same id; it is still PENDING on an open socket
C30_Witness ==
    /\ c_state = "PENDING" /\ c_link = "open" /\ ~ws_closed[c_ws]
    /\ ka = Ka(MaxPing, 0)
    /\ outbox[c_ws] = <<>>
    /\ inbox[c_ws] = <<Msg("PONG", AuthId + 1, NoKey, <<>>)>>

\* ------------------------------------------------------------------------
\* C31: the cleanup that runs when the handler of one socket ends leaves
\* alone what belongs to another socket that is still open and accepted: that
\* socket's registration stays in the registry, the exchanges pending on it
\* are not completed, and its connector stays known to the router.
C31_CleanupOwnState ==
    [][\A s, t \in Socks :
          (/\ s # t
           /\ pc[s] # "closed" /\ pc'[s] = "closed"
           /\ pc[t] = "accepted" /\ pc'[t] = "accepted" /\ ~ws_closed[t]
           /\ s_cid[t] # NoId /\ connectors[s_cid[t]] = t) =>
             /\ connectors'[s_cid[t]] = t
             /\ \A e \in reg[t].pend : slot'[e] = slot[e]
             /\ s_cid[t] \in r_ids(r_connectors')]_vars

\* ------------------------------------------------------------------------
\* C32: once send_request has returned or raised for an exchange, no
\* registration holds its correlation id; and when the message loop takes a
\* frame whose id no registration holds, no future, queue, pending map or
\* exchange changes and nothing is written.
C32_EntryPoppedLateFrameDropped ==
    [][/\ \A e \in ExIds :
             (ex'[e].kind = "unary" /\ ex'[e].st = "done") =>
                \A t \in Socks : e \notin reg'[t].pend
       /\ \A s \in Socks :
             (/\ AcceptedRecv(s) /\ Head(inbox[s]).type # "CLOSE"
              /\ \A t \in Socks : Head(inbox[s]).id \notin reg[t].pend) =>
                /\ slot' = slot /\ reg' = reg /\ ex' = ex
                /\ outbox' = outbox /\ connectors' = connectors
                /\ pc' = pc]_vars

\* exchange 1 timed out and its connector answered afterwards: the RESPONSE
\* it wrote has been taken by the message loop, the future of exchange 1 was
\* not completed by it, and exchange 2 is still waiting on the same socket
C32_Witness ==
    /\ ex[1].kind = "unary" /\ ex[1].st = "done" /\ ex[1].timed_out
    /\ Len(sent[1]) = 1 /\ sent[1][1].type = "RESPONSE"
    /\ ex[1].reg # NoSock /\ inbox[ex[1].reg] = <<>>
    /\ slot[1].exc = "cancelled"
    /\ ex[2].st = "waiting" /\ ex[2].reg = ex[1].reg /\ ~slot[2].done
    /\ reg[ex[1].reg].pend = {2}

\* ------------------------------------------------------------------------
\* C33: _handle_reconnect called on a running client adds exactly 1 to the
\* attempt counter and sets the state RECONNECTING, the state stays
\* RECONNECTING while the client runs and sleeps, and when the call returns
\* to the run loop the state is DISCONNECTED.
C33_ReconnectReturnsDisconnected ==
    [][/\ (c_pc \in {"reconnect_c", "reconnect_x"} /\ c_running
           /\ c_pc' # c_pc) =>
              /\ c_attempt' = c_attempt + 1
              /\ c_state' = "RECONNECTING"
              /\ c_pc' \in {"sleep_c", "sleep_x"}
       /\ (c_pc' \in {"sleep_c", "sleep_x"} /\ c_running') =>
              c_state' = "RECONNECTING"
       /\ (c_pc \in {"sleep_c", "sleep_x"} /\ c_running /\ c_pc' = "loop") =>
              c_state' = "DISCONNECTED"]_vars

\* ------------------------------------------------------------------------
\* C34: every change of the client's state is an edge of the state machine
\* (a failed attempt to connect counts as the failure edge to DISCONNECTED),
\* or is made by stop(); and the run loop enters the message loop only in
\* CONNECTED or PENDING.
StateEdges ==
    {<<"DISCONNECTED", "CONNECTING">>, <<"CONNECTING", "AUTHENTICATING">>,
     <<"CONNECTING", "DISCONNECTED">>,
     <<"AUTHENTICATING", "CONNECTED">>, <<"AUTHENTICATING", "PENDING">>,
     <<"AUTHENTICATING", "DISCONNECTED">>,
     <<"CONNECTED", "DISCONNECTED">>, <<"PENDING", "DISCONNECTED">>,
     <<"DISCONNECTED", "RECONNECTING">>, <<"RECONNECTING", "DISCONNECTED">>,
     <<"RECONNECTING", "CONNECTING">>}

C34_StateMachine ==
    [][/\ c_state' # c_state =>
             \/ <<c_state, c_state'>> \in StateEdges
             \/ ClientStop
       /\ (c_pc # "msgloop" /\ c_pc' = "msgloop") =>
             c_state' \in {"CONNECTED", "PENDING"}]_vars

\* ------------------------------------------------------------------------
\* C35: when the first frame of a new socket is not a valid AUTH (another
\* type, undecodable, a close, or nothing before the deadline) the handler
\* ends with the socket closed and the registry, the pending admissions,
\* the store and the router as they were.
C35_NoAuthNoTrace ==
    [][\A s \in Socks :
          (/\ pc[s] = "await_auth"
           /\ inbox[s] = <<>> \/ Head(inbox[s]).type # "AUTH"
           /\ pc'[s] # pc[s]) =>
             /\ pc'[s] = "closed" /\ ws_closed'[s]
             /\ s_cid'[s] = NoId
             /\ connectors' = connectors /\ reg' = reg
             /\ pending_connections' = pending_connections
             /\ records' = records /\ key_index' = key_index
             /\ next_cid' = next_cid
             /\ r_connectors' = r_connectors /\ routes' = routes]_vars

\* one socket was closed after AUTH_FAIL for a frame of another type, one
\* without a reply (close, undecodable frame or deadline); no connector is
\* registered, pending or stored
C35_Witness ==
    /\ \E s, t \in Socks :
          /\ pc[s] = "closed" /\ ws_closed[s] /\ s_auth[s] = Sentinel
          /\ Len(outbox[s]) = 1 /\ outbox[s][1].type = "AUTH_FAIL"
          /\ pc[t] = "closed" /\ ws_closed[t] /\ s_auth[t] = Sentinel
          /\ outbox[t] = <<>>
    /\ \A c \in ConnIds :
          /\ connectors[c] = NoSock /\ pending_connections[c] = NoSock
          /\ records[c].status = "absent"
    /\ r_connectors = <<>>

\* ------------------------------------------------------------------------
\* C36: the connector ids the router knows are the connector ids that have a
\* registration in the transport server.
RegisteredIds == {c \in ConnIds : connectors[c] # NoSock}

C37_StreamEntryRemoved ==
    \A e \in ExIds :
        (/\ ex[e].kind = "stream" /\ ex[e].st = "done"
         /\ pc[ex[e].reg] = "accepted" /\ ~ws_closed[ex[e].reg]) =>
            e \notin reg[ex[e].reg].pend

\* C38: no two writes to the same connector socket overlap: on the connector
\* side every writer inside the send holds the send lock, and on the broker
\* side, where no lock exists to hold, at most one task is inside send_str
\* at a time
C38_NoOverlappingWrites ==
    /\ \A w \in ConnWriters : wr.conn[w] = "sending" => wr.lock = w
    /\ Cardinality({w \in ConnWriters : wr.conn[w] = "sending"}) <= 1
    /\ Cardinality({w \in BrokerWriters : wr.brk[w] = "sending"}) <= 1

\* ------------------------------------------------------------------------
\* the sockets other than s are left as they are: nothing written, nothing
\* closed, no handler moved
OtherSocketsUntouched(s) ==
    \A t \in Socks \ {s} :
        /\ outbox'[t] = outbox[t] /\ ws_closed'[t] = ws_closed[t]
        /\ pc'[t] = pc[t] /\ inbox'[t] = inbox[t]

\* the registrations and pending admissions of the connectors other than cid
\* are left as they are
OtherConnectorsUntouched(cid) ==
    \A c \in ConnIds \ {cid} :
        /\ connectors'[c] = connectors[c]
        /\ pending_connections'[c] = pending_connections[c]

\* C39: notify_approval(X, K) writes APPROVED{K} to the pending-admission
\* socket of X and closes that socket only; notify_revoke(X) writes REVOKED to
\* X's accepted socket and closes it, or closes X's pending socket without
\* writing; when they return false nothing is written and no registration or
\* pending admission changes
C39_NotifyScoped ==
    [][\A cid \in ConnIds :
        /\ (approve_ok(cid) /\ AdminApprove(cid)) =>
              IF notify_approval_result(cid)
              THEN LET p == pending_connections[cid] IN
                   /\ outbox'[p] = Append(outbox[p],
                         Msg("APPROVED", s_auth[p].id, next_key, <<>>))
                   /\ ws_closed'[p]
                   /\ connectors' = connectors
                   /\ OtherSocketsUntouched(p)
                   /\ OtherConnectorsUntouched(cid)
              ELSE UNCHANGED <<outbox, ws_closed, pc, connectors,
                               pending_connections, reg>>
        /\ \/ revoke_ok(cid) /\ AdminRevoke(cid)
           \/ delete_ok(cid) /\ AdminDelete(cid)
           => IF ~notify_revoke_result(cid)
              THEN UNCHANGED <<outbox, ws_closed, pc, connectors,
                               pending_connections, reg>>
              ELSE IF connectors[cid] # NoSock
              THEN LET t == connectors[cid] IN
                   /\ outbox'[t] = Append(outbox[t],
                         Msg("REVOKED", AuthId, NoKey, <<>>))
                   /\ ws_closed'[t]
                   /\ OtherSocketsUntouched(t)
                   /\ connectors' = connectors
                   /\ pending_connections' = pending_connections
              ELSE LET p == pending_connections[cid] IN
                   /\ outbox' = outbox
                   /\ ws_closed'[p]
                   /\ connectors' = connectors
                   /\ OtherSocketsUntouched(p)
                   /\ OtherConnectorsUntouched(cid)]_vars

\* a pending socket was closed right after APPROVED was written to it and an
\* accepted socket right after REVOKED, while a third socket is still open in
\* its handler
C39_Witness ==
    \E p, t, o \in Socks :
        /\ p # t /\ p # o /\ t # o
        /\ ws_closed[p] /\ outbox[p] # <<>>
        /\ outbox[p][Len(outbox[p])].type = "APPROVED"
        /\ ws_closed[t] /\ outbox[t] # <<>>
        /\ outbox[t][Len(outbox[t])].type = "REVOKED"
        /\ ~ws_closed[o] /\ pc[o] \in {"pending", "accepted"}

====
